---- MODULE Spec2Model ----
(***************************************************************************)
(* Evaluation orchestration core of the-agent-company harness.             *)
(*                                                                         *)
(* The model follows src/src/green_agent/evaluation/evaluator.py           *)
(* (TACEvaluator.evaluate_tasks / evaluate_task / _aggregate_results),     *)
(* src/src/green_agent/evaluation/task_selector.py (TaskSelector),         *)
(* src/src/utils/docker_manager.py (DockerManager),                        *)
(* src/src/utils/a2a_client.py (wait_agent_ready, send_message_to_agent)   *)
(* src/src/data/trajectory_collector.py (TrajectoryCollector,              *)
(* A2ATrajectoryCollector) and src/src/white_agent/agent.py                *)
(* (GeneralWhiteAgentExecutor).                                            *)
(*                                                                         *)
(* One behaviour of SpecSelect constructs TaskSelector objects and calls   *)
(* select_tasks on them in any order.                                      *)
(* SpecDocker awaits DockerManager methods one after the other, SpecReady  *)
(* runs wait_agent_ready calls, SpecExtract one _extract_message_text,     *)
(* SpecCollector the calls on one trajectory collector and SpecWhite the   *)
(* execute requests of the white agent.  SpecFair is Spec with every step  *)
(* of the run eventually taken.                                            *)
(* One behaviour of Spec is one call of evaluate_tasks on a freshly        *)
(* constructed TaskSelector.  Every await of the code is a step; the       *)
(* outcome of every external call (docker, http) is chosen with \E.        *)
(* Python values of mixed type are records with a "kind" field; a missing  *)
(* dictionary key is the value Absent / AbsentV.                           *)
(***************************************************************************)
EXTENDS Integers, Sequences, FiniteSets, TLC

(***************************************************************************)
(* Bounds of the model (not program constants).                            *)
(***************************************************************************)
\* every catalog subset is cut to its first MaxSubsetLen entries
MaxSubsetLen == 2
\* the pseudo random generator has RngMod states
RngMod == 4
\* TaskSelector objects constructed in one behaviour of SpecSelect
MaxSelectors == 3
\* select_tasks calls made in one behaviour of SpecSelect
MaxSelectCalls == 2
\* DockerManager calls made in one behaviour of SpecDocker
MaxDockerCalls == 3
\* wait_agent_ready calls made in one behaviour of SpecReady
MaxReadyCalls == 2
\* parts of a response handed to _extract_message_text in SpecExtract
MaxParts == 4

\* calls made on one collector
MaxCollectorCalls == 4

\* white agent: self.max_iterations of the executor (30 by default), the
\* execute requests it serves and the tool calls of one assistant message
MaxIterations == 2
MaxRequests == 2
MaxToolCalls == 2

(***************************************************************************)
(* Python values                                                           *)
(***************************************************************************)
None == [kind |-> "None"]
AbsentV == [kind |-> "absent"]
Absent == "<absent>"
PyInt(n) == [kind |-> "int", v |-> n]
PyList(s) == [kind |-> "list", items |-> s]
PyStr(s) == [kind |-> "str", s |-> s]
PyBool(b) == [kind |-> "bool", v |-> b]
PyFloat(n) == [kind |-> "float", v |-> n]
PyTuple(s) == [kind |-> "tuple", items |-> s]
PyDict(d) == [kind |-> "dict", d |-> d]
Raised(e) == [kind |-> "raised", error |-> e]

\* Python truthiness of None, int, list and str values
Truthy(x) ==
    CASE x.kind = "None" -> FALSE
      [] x.kind = "int" -> x.v # 0
      [] x.kind = "list" -> Len(x.items) > 0
      [] x.kind = "str" -> x.s # ""
      [] OTHER -> TRUE

Min(a, b) == IF a < b THEN a ELSE b

Take(s, n) == SubSeq(s, 1, Min(Len(s), n))

RECURSIVE RemoveAt(_, _)
RemoveAt(s, i) ==
    IF i = 1 THEN Tail(s) ELSE <<Head(s)>> \o RemoveAt(Tail(s), i - 1)

Range(s) == {s[i] : i \in 1..Len(s)}

(***************************************************************************)
(* Task catalog (task_selector.py), cut to MaxSubsetLen entries per subset; *)
(* advanced keeps one entry more, so that a sample of two leaves one out.  *)
(***************************************************************************)
\* a catalog in which a subset lists a task twice
TASK_SUBSETS_Repeating ==
    [beginner |-> <<"pm-send-hello-message", "pm-send-hello-message">>,
     intermediate |-> <<"pm-schedule-meeting-2", "pm-schedule-meeting-2">>,
     advanced |-> <<"sde-implement-raft-in-go", "sde-implement-raft-in-go",
                    "sde-debug-crashed-server">>]

TASK_SUBSETS ==
    [beginner |-> Take(<<"pm-send-hello-message", "sde-create-new-repo",
                         "hr-check-attendance-one-day",
                         "finance-qualified-bill-ask-for-reimburse">>, MaxSubsetLen),
     intermediate |-> Take(<<"pm-schedule-meeting-2", "sde-run-janusgraph",
                             "sde-check-and-run-unit-test",
                             "hr-new-grad-job-description-3",
                             "ds-janusgraph-exercise">>, MaxSubsetLen),
     advanced |-> Take(<<"sde-implement-raft-in-go", "sde-debug-crashed-server",
                         "ds-predictive-modeling",
                         "research-answer-questions-on-paper">>, MaxSubsetLen + 1)]

get_task_image_name(task_name) ==
    [registry |-> "ghcr.io/theagentcompany", name |-> task_name \o "-image",
     version |-> "1.0.0"]

(***************************************************************************)
(* The module-global generator of Python's random.  The generator is a    *)
(* deterministic function of its state; the model uses a counter of        *)
(* RngMod states in place of the Mersenne twister: successive draws may    *)
(* repeat or differ, and equal states give equal draws.                    *)
(***************************************************************************)
NextRng(r) == (r + 1) % RngMod

\* the number below n the generator yields in state r
Draw(r, n) == (r \div 2) % n

\* random.seed(n)
SeedRng(n) == n % RngMod

\* random.sample(population, k) for 0 <= k <= len(population): k draws
\* without replacement; the position drawn is decided by the generator.
RECURSIVE SampleItems(_, _, _)
SampleItems(pool, k, r) ==
    IF k = 0 THEN <<>>
    ELSE LET i == Draw(r, Len(pool)) + 1
         IN <<pool[i]>> \o SampleItems(RemoveAt(pool, i), k - 1, NextRng(r))

RECURSIVE SampleRng(_, _)
SampleRng(k, r) == IF k = 0 THEN r ELSE SampleRng(k - 1, NextRng(r))

(***************************************************************************)
(* TaskSelector.select_tasks as a function of the selector's fields and    *)
(* the generator state: [ok, tasks, rng].  ok = FALSE is the ValueError    *)
(* random.sample raises for a negative sample size.                        *)
(***************************************************************************)
\* ResolveTasks in which a known subset wins over an explicit name list
ResolveTasksSubsetFirst(sel) ==
    IF Truthy(sel.subset) /\ sel.subset.s \in DOMAIN TASK_SUBSETS
    THEN TASK_SUBSETS[sel.subset.s]
    ELSE IF Truthy(sel.task_names) THEN sel.task_names.items
    ELSE TASK_SUBSETS["intermediate"]

ResolveTasks(sel) ==
    IF Truthy(sel.task_names) THEN sel.task_names.items
    ELSE IF Truthy(sel.subset) /\ sel.subset.s \in DOMAIN TASK_SUBSETS
         THEN TASK_SUBSETS[sel.subset.s]
    ELSE TASK_SUBSETS["intermediate"]

\* select_tasks that looks the subset up with TASK_SUBSETS[subset]: a
\* KeyError for a name that is not a subset
select_tasksUnknownSubsetRaises(sel, r) ==
    IF /\ ~Truthy(sel.task_names)
       /\ Truthy(sel.subset)
       /\ sel.subset.s \notin DOMAIN TASK_SUBSETS
    THEN [ok |-> FALSE, tasks |-> <<>>, rng |-> r]
    ELSE [ok |-> TRUE, tasks |-> ResolveTasks(sel), rng |-> r]

select_tasks(sel, r) ==
    LET resolved == ResolveTasks(sel)
    IN IF Truthy(sel.max_tasks) /\ Len(resolved) > sel.max_tasks.v
       THEN IF sel.max_tasks.v < 0
            THEN [ok |-> FALSE, tasks |-> <<>>, rng |-> r]
            ELSE [ok |-> TRUE,
                  tasks |-> SampleItems(resolved, sel.max_tasks.v, r),
                  rng |-> SampleRng(sel.max_tasks.v, r)]
       ELSE [ok |-> TRUE, tasks |-> resolved, rng |-> r]

\* TaskSelector.get_task_images: the images of a second select_tasks call
get_task_images(sel, r) ==
    LET s == select_tasks(sel, r)
    IN [ok |-> s.ok,
        images |-> [i \in 1..Len(s.tasks) |-> get_task_image_name(s.tasks[i])],
        rng |-> s.rng]

(***************************************************************************)
(* The world outside the process                                           *)
(***************************************************************************)
\* src/data/task_instructions.json: the tasks with a precomputed instruction
TASK_INSTRUCTIONS_FILE ==
    [t \in {"pm-send-hello-message", "pm-schedule-meeting-2"} |->
        "precomputed instruction of " \o t]

\* what _load_precomputed_instructions can find at INSTRUCTIONS_FILE: the
\* file of the repository, no file, or a file json.load raises on
InstructionFiles ==
    {[kind |-> "dict", d |-> TASK_INSTRUCTIONS_FILE],
     [kind |-> "missing"],
     [kind |-> "unparsable"]}

\* src/data/trajectories/<task>.json: the precomputed transcripts
TRAJECTORIES_DIR ==
    [t \in {"pm-send-hello-message", "sde-run-janusgraph"} |->
        [kind |-> "bytes", of |-> "precomputed trajectory of " \o t]]

\* explicit task-name lists a request may carry
TaskNameLists ==
    {None, PyList(<<"pm-send-hello-message">>),
     PyList(<<"no-such-task", "no-such-task">>)}

Subsets == {None, PyStr("beginner")}

MaxTaskValues == {None, PyInt(1), PyInt(-1)}

Seeds == {None, PyInt(0)}

ContextIds == {None, PyStr("ctx-run")}

\* every task name a run can meet
TaskNames ==
    UNION {Range(TASK_SUBSETS[k]) : k \in DOMAIN TASK_SUBSETS}
        \cup UNION {Range(l.items) : l \in TaskNameLists \ {None}}

Missing == [kind |-> "missing"]

(***************************************************************************)
(* State                                                                   *)
(***************************************************************************)
VARIABLES
    selector,        \* TaskSelector fields: subset, task_names, max_tasks, random_seed
    rng,             \* state of the module-global random generator
    context_id,      \* context_id argument of evaluate_tasks
    skip_docker_eval,\* os.getenv("SKIP_DOCKER_EVAL") == "true"
    pc,              \* position of evaluate_tasks / evaluate_task
    tasks,           \* evaluate_tasks: tasks
    task_images,     \* evaluate_tasks: task_images
    attempt,         \* wait_agent_ready: polls made
    idx,             \* position of the for loop in zip(tasks, task_images)
    all_results,     \* evaluate_tasks: all_results
    task_results,    \* evaluate_task: task_results
    task_instruction,\* evaluate_task: task_instruction
    collector,       \* evaluate_task: trajectory_collector
    precomputed_instructions, \* module global _precomputed_instructions
    local_images,    \* images of the local docker store
    traj_files,      \* output_dir/traj_<task>.json
    result_files,    \* output_dir/result_<task>.json
    calls,           \* external calls made so far, in order
    outcome,         \* what evaluate_tasks returned or raised
    selectors,       \* the TaskSelector objects constructed so far, in order
    selections,      \* what each select_tasks call returned, in order
    containers,      \* docker run commands of the process that are still running
    instructions_file, \* what is at INSTRUCTIONS_FILE on the disk
    ctx_id_to_messages, \* white agent: the message history of each context id
    event_queue,     \* white agent: the events enqueued, each with its request
    iteration,       \* white agent: the loop counter of execute
    recent_commands, \* white agent: the command signatures of the request
    request          \* white agent: the number of the execute request served

vars == <<selector, rng, context_id, skip_docker_eval, pc, tasks, task_images,
          attempt, idx, all_results, task_results, task_instruction, collector,
          precomputed_instructions, local_images, traj_files, result_files,
          calls, outcome, selectors, selections, containers,
          instructions_file, ctx_id_to_messages, event_queue, iteration, recent_commands,
          request>>

\* the state of GeneralWhiteAgentExecutor
whitevars == <<ctx_id_to_messages, event_queue, iteration, recent_commands,
               request>>

\* GeneralWhiteAgentExecutor.__init__: no history, nothing served
NoRequests ==
    /\ ctx_id_to_messages = <<>>
    /\ event_queue = <<>>
    /\ iteration = 0
    /\ recent_commands = <<>>
    /\ request = 0

NoCollector == [task_name |-> Absent, actions |-> <<>>, messages |-> <<>>]

NoTaskResults ==
    [task_name |-> Absent, task_image |-> AbsentV, status |-> Absent,
     start_time |-> Absent, elapsed_time |-> Absent, evaluation |-> AbsentV,
     trajectory_path |-> AbsentV, warning |-> Absent, error |-> Absent]

\* one entry of the call log: the operation, the loop position and task it was
\* made for, its argument and what it returned
Call(op, i, task, arg, ret) ==
    [op |-> op, idx |-> i, task |-> task, arg |-> arg, ret |-> ret]

\* TaskSelector.__init__ has run: a seed, when given, has seeded the generator
Init ==
    /\ selector \in [subset : Subsets, task_names : TaskNameLists,
                     max_tasks : MaxTaskValues, random_seed : Seeds]
    /\ rng \in IF selector.random_seed = None
               THEN 0..(RngMod - 1)
               ELSE {SeedRng(selector.random_seed.v)}
    /\ context_id \in ContextIds
    /\ skip_docker_eval \in BOOLEAN
    /\ pc = "select"
    /\ tasks = <<>>
    /\ task_images = <<>>
    /\ attempt = 0
    /\ idx = 1
    /\ all_results = <<>>
    /\ task_results = NoTaskResults
    /\ task_instruction = Absent
    /\ collector = NoCollector
    /\ precomputed_instructions = None
    /\ local_images = {get_task_image_name("pm-schedule-meeting-2")}
    /\ traj_files = [t \in TaskNames |-> Missing]
    /\ result_files = [t \in TaskNames |-> Missing]
    /\ calls = <<>>
    /\ outcome = AbsentV
    /\ selectors = <<>>
    /\ selections = <<>>
    /\ containers = {}
    /\ NoRequests
    /\ instructions_file = [kind |-> "dict", d |-> TASK_INSTRUCTIONS_FILE]

(***************************************************************************)
(* evaluate_tasks, lines 338-339: the selection and its images             *)
(***************************************************************************)
SelectTasks ==
    /\ pc = "select"
    /\ LET s == select_tasks(selector, rng)
           g == get_task_images(selector, s.rng)
       IN IF s.ok /\ g.ok
          THEN /\ tasks' = s.tasks
               /\ task_images' = g.images
               /\ rng' = g.rng
               /\ pc' = "wait_ready"
               /\ UNCHANGED outcome
          ELSE /\ pc' = "raised"
               /\ outcome' = Raised("ValueError")
               /\ UNCHANGED <<tasks, task_images, rng>>
    /\ UNCHANGED <<instructions_file, whitevars, containers, selectors, selections, selector, context_id, skip_docker_eval, attempt, idx,
                   all_results, task_results, task_instruction, collector,
                   precomputed_instructions, local_images, traj_files,
                   result_files, calls>>

(***************************************************************************)
(* wait_agent_ready (a2a_client.py) and the check of evaluate_tasks,       *)
(* lines 346-349: one poll of the agent card per step.  attempt is the     *)
(* loop variable of wait_agent_ready; the call is logged when it returns.  *)
(***************************************************************************)
max_attempts == 30

\* PollReady that goes on to the tasks when the polls are exhausted
PollReadyNoRaise ==
    /\ pc = "wait_ready"
    /\ attempt < max_attempts
    /\ \E status_ok \in BOOLEAN :
        IF status_ok \/ attempt + 1 = max_attempts
        THEN /\ attempt' = 0
             /\ calls' = Append(calls, Call("wait_agent_ready", 0, Absent,
                                             AbsentV, PyBool(status_ok)))
             /\ pc' = "loop"
             /\ UNCHANGED outcome
        ELSE /\ attempt' = attempt + 1
             /\ UNCHANGED <<pc, outcome, calls>>
    /\ UNCHANGED <<instructions_file, whitevars, containers, selectors, selections, selector, rng, context_id, skip_docker_eval, tasks,
                   task_images, idx, all_results, task_results,
                   task_instruction, collector, precomputed_instructions,
                   local_images, traj_files, result_files>>

PollReady ==
    /\ pc = "wait_ready"
    /\ attempt < max_attempts
    /\ \E status_ok \in BOOLEAN :
        IF status_ok
        THEN \* return True; evaluate_tasks goes on to the loop
             /\ attempt' = 0
             /\ calls' = Append(calls, Call("wait_agent_ready", 0, Absent,
                                             AbsentV, PyBool(TRUE)))
             /\ pc' = "loop"
             /\ UNCHANGED outcome
        ELSE IF attempt + 1 = max_attempts
        THEN \* return False; evaluate_tasks raises
             /\ attempt' = 0
             /\ calls' = Append(calls, Call("wait_agent_ready", 0, Absent,
                                             AbsentV, PyBool(FALSE)))
             /\ pc' = "raised"
             /\ outcome' = Raised("RuntimeError: white agent is not ready")
        ELSE /\ attempt' = attempt + 1
             /\ UNCHANGED <<pc, outcome, calls>>
    /\ UNCHANGED <<instructions_file, whitevars, containers, selectors, selections, selector, rng, context_id, skip_docker_eval, tasks,
                   task_images, idx, all_results, task_results,
                   task_instruction, collector, precomputed_instructions,
                   local_images, traj_files, result_files>>

(***************************************************************************)
(* evaluate_task                                                           *)
(***************************************************************************)
\* zip(tasks, task_images)
ZipLen == Min(Len(tasks), Len(task_images))

task_name == tasks[idx]

task_image == task_images[idx]

\* for ... in zip(...), line 355, and evaluate_task lines 91-97
\* BeginTask that checks the agent's readiness again before each task
BeginTaskRechecks ==
    /\ pc = "loop"
    /\ idx <= ZipLen
    /\ task_results' = [NoTaskResults EXCEPT !.task_name = task_name,
                                             !.task_image = task_image,
                                             !.status = "pending",
                                             !.start_time = "set"]
    /\ task_instruction' = Absent
    /\ collector' = NoCollector
    /\ calls' = Append(calls, Call("wait_agent_ready", 0, Absent, AbsentV,
                                    PyBool(TRUE)))
    /\ pc' = "step1"
    /\ UNCHANGED <<instructions_file, whitevars, containers, selectors, selections, selector, rng, context_id, skip_docker_eval, tasks,
                   task_images, attempt, idx, all_results,
                   precomputed_instructions, local_images, traj_files,
                   result_files, outcome>>

BeginTask ==
    /\ pc = "loop"
    /\ idx <= ZipLen
    /\ task_results' = [NoTaskResults EXCEPT !.task_name = task_name,
                                             !.task_image = task_image,
                                             !.status = "pending",
                                             !.start_time = "set"]
    /\ task_instruction' = Absent
    /\ collector' = NoCollector
    /\ pc' = "step1"
    /\ UNCHANGED <<instructions_file, whitevars, containers, selectors, selections, selector, rng, context_id, skip_docker_eval, tasks,
                   task_images, attempt, idx, all_results,
                   precomputed_instructions, local_images, traj_files,
                   result_files, calls, outcome>>

\* the placeholder score of lines 111-116, 233-238 and 253-258
Placeholder(name, err, note) ==
    [kind |-> "dict",
     checkpoints |-> <<[total |-> 1, result |-> 0]>>,
     final_score |-> [kind |-> "dict", total |-> 1, result |-> 0],
     task_name |-> name, error |-> err, note |-> note]

\* the local check of pull_image, lines 42-46: docker images -q prints the
\* image id when the image is in the local store and the command answers
\* (check_ok); a timeout or launch failure of _run_command gives no output
LocalCheck(image, check_ok) == check_ok /\ image \in local_images

\* PullRuns of a pull_image without the local check: docker pull always runs
PullRunsAlways(image, check_ok) == TRUE

\* pull_image runs docker pull only when the local check printed nothing
PullRuns(image, check_ok) == ~LocalCheck(image, check_ok)

\* what docker pull can exit with under _run_command: 0, an error code of
\* docker, or -1 for the 120s timeout and for a docker that cannot be started
PullExitCodes == {0, 1, -1}

\* pull_image that reports only what the local check found
pull_imageLocalOnly(image, check_ok, pull_rc) ==
    LocalCheck(image, check_ok)

\* DockerManager.pull_image: True when the local check finds the image or
\* the pull exits with 0 (pull_rc is the exit code of docker pull, non-zero
\* also for a timeout or a missing docker); the function never raises, so
\* the except branch of evaluate_task, lines 127-146, has no case
pull_image(image, check_ok, pull_rc) ==
    LocalCheck(image, check_ok) \/ pull_rc = 0

\* PullImage with an unavailable image treated as a failure of the task
PullImageUnavailableFails ==
    /\ pc = "step1"
    /\ \E check_ok \in BOOLEAN, pull_rc \in PullExitCodes :
        /\ calls' = Append(calls, Call("pull_image", idx, task_name,
                        [image |-> task_image,
                         local |-> LocalCheck(task_image, check_ok),
                         pulled |-> PullRuns(task_image, check_ok),
                         pull_rc |-> IF PullRuns(task_image, check_ok)
                                     THEN PyInt(pull_rc) ELSE None],
                        PyBool(pull_image(task_image, check_ok, pull_rc))))
        /\ local_images' = IF PullRuns(task_image, check_ok) /\ pull_rc = 0
                           THEN local_images \cup {task_image}
                           ELSE local_images
        /\ IF pull_image(task_image, check_ok, pull_rc)
           THEN /\ pc' = "step2"
                /\ UNCHANGED <<task_results, task_instruction>>
           ELSE /\ task_results' =
                      [task_results EXCEPT !.status = "failed",
                                           !.elapsed_time = "set",
                                           !.error = "Docker not available"]
                /\ pc' = "return"
                /\ UNCHANGED task_instruction
    /\ UNCHANGED <<instructions_file, whitevars, containers, selectors, selections, selector, rng, context_id, skip_docker_eval, tasks,
                   task_images, attempt, idx, all_results, collector,
                   precomputed_instructions, traj_files, result_files, outcome>>

\* Step 1, lines 100-126
PullImage ==
    /\ pc = "step1"
    /\ \E check_ok \in BOOLEAN, pull_rc \in PullExitCodes :
        /\ calls' = Append(calls, Call("pull_image", idx, task_name,
                        [image |-> task_image,
                         local |-> LocalCheck(task_image, check_ok),
                         pulled |-> PullRuns(task_image, check_ok),
                         pull_rc |-> IF PullRuns(task_image, check_ok)
                                     THEN PyInt(pull_rc) ELSE None],
                        PyBool(pull_image(task_image, check_ok, pull_rc))))
        /\ local_images' = IF PullRuns(task_image, check_ok) /\ pull_rc = 0
                           THEN local_images \cup {task_image}
                           ELSE local_images
        /\ IF pull_image(task_image, check_ok, pull_rc)
           THEN /\ pc' = "step2"
                /\ UNCHANGED <<task_results, task_instruction>>
           ELSE /\ task_instruction' =
                      "Complete the task for " \o task_name
                          \o ". This is a mock instruction since Docker is not available."
                /\ task_results' =
                      [task_results EXCEPT
                          !.status = "completed",
                          !.elapsed_time = "set",
                          !.evaluation = Placeholder(task_name,
                              "Docker not available - evaluation skipped", Absent),
                          !.trajectory_path = None,
                          !.warning = "Docker not available - used mock evaluation"]
                /\ pc' = "return"
    /\ UNCHANGED <<instructions_file, whitevars, containers, selectors, selections, selector, rng, context_id, skip_docker_eval, tasks,
                   task_images, attempt, idx, all_results, collector,
                   precomputed_instructions, traj_files, result_files, outcome>>

\* _load_precomputed_instructions: the cache after the call; a missing
\* file and a file that does not parse both leave the empty dict
load_precomputed_instructions(file) ==
    IF precomputed_instructions = None
    THEN IF file.kind = "dict" THEN file ELSE [kind |-> "dict", d |-> <<>>]
    ELSE precomputed_instructions

\* get_task_instruction that returns stdout whatever the exit code: the
\* empty output of a failed command
get_task_instructionNoFallback(image, rc) ==
    IF rc = 0 THEN "task.md of " \o image.name ELSE ""

\* DockerManager.get_task_instruction: stdout of the container on exit 0,
\* else the generic instruction
get_task_instruction(image, rc) ==
    IF rc = 0 THEN "task.md of " \o image.name
    ELSE "Complete the task in /instruction/task.md"

\* GetInstruction that extracts the instruction from the image whether or
\* not the cache has the task
GetInstructionAlwaysExtracts ==
    /\ pc = "step2"
    /\ precomputed_instructions' =
          load_precomputed_instructions(instructions_file)
    /\ \E rc \in {0, -1} :
       /\ task_instruction' = get_task_instruction(task_image, rc)
       /\ calls' = Append(calls,
              Call("get_task_instruction", idx, task_name, task_image,
                   PyStr(get_task_instruction(task_image, rc))))
    /\ pc' = "step3"
    /\ UNCHANGED <<instructions_file, whitevars, containers, selectors, selections, selector, rng, context_id, skip_docker_eval, tasks,
                   task_images, attempt, idx, all_results, task_results,
                   collector, local_images, traj_files, result_files, outcome>>

\* Step 2, lines 148-163
GetInstruction ==
    /\ pc = "step2"
    /\ precomputed_instructions' =
          load_precomputed_instructions(instructions_file)
    /\ LET precomputed == load_precomputed_instructions(instructions_file).d
       IN IF task_name \in DOMAIN precomputed
          THEN /\ task_instruction' = precomputed[task_name]
               /\ UNCHANGED calls
          ELSE \E rc \in {0, -1} :
               /\ task_instruction' = get_task_instruction(task_image, rc)
               /\ calls' = Append(calls,
                      Call("get_task_instruction", idx, task_name, task_image,
                           PyStr(get_task_instruction(task_image, rc))))
    /\ pc' = "step3"
    /\ UNCHANGED <<instructions_file, whitevars, containers, selectors, selections, selector, rng, context_id, skip_docker_eval, tasks,
                   task_images, attempt, idx, all_results, task_results,
                   collector, local_images, traj_files, result_files, outcome>>

trajectory_path == [kind |-> "path", file |-> "traj_" \o task_name \o ".json"]

\* a copy that re-encodes what it read
CopyReencoded(src) == [src EXCEPT !.of = "re-encoded " \o src.of]

\* shutil.copy: the bytes written are the bytes read
CopyBytes(src) == src

\* Step 3, lines 165-177: a precomputed trajectory exists
CopyTrajectory ==
    /\ pc = "step3"
    /\ task_name \in DOMAIN TRAJECTORIES_DIR
    /\ traj_files' = [traj_files EXCEPT
                         ![task_name] = CopyBytes(TRAJECTORIES_DIR[task_name])]
    /\ pc' = "step6"
    /\ UNCHANGED <<instructions_file, whitevars, containers, selectors, selections, selector, rng, context_id, skip_docker_eval, tasks,
                   task_images, attempt, idx, all_results, task_results,
                   task_instruction, collector, precomputed_instructions,
                   local_images, result_files, calls, outcome>>

(***************************************************************************)
(* Step 4 and 5: the live exchange                                         *)
(***************************************************************************)
\* A2ATrajectoryCollector.add_message: the message goes to self.messages
add_message(c, role, content) ==
    [c EXCEPT !.messages = Append(c.messages,
        [role |-> role, content |-> content, message_id |-> None,
         timestamp |-> Len(c.messages) + 1])]

\* TrajectoryCollector.get_trajectory
get_trajectory(c) ==
    [task_name |-> c.task_name, actions |-> c.actions,
     action_count |-> Len(c.actions)]

\* A2ATrajectoryCollector.save: the JSON document written
SavedTrajectory(c) ==
    [kind |-> "json", task_name |-> get_trajectory(c).task_name,
     actions |-> get_trajectory(c).actions,
     action_count |-> get_trajectory(c).action_count,
     messages |-> c.messages]

\* responses of the subject: a success response with one text part, and a
\* response without a result
Responses ==
    {[has_result |-> TRUE, has_parts |-> TRUE,
      parts |-> <<[has_text |-> TRUE, text |-> "done"]>>],
     [has_result |-> FALSE, has_parts |-> FALSE, parts |-> <<>>]}

SendErrors == {"ConnectError", "ReadTimeout"}

RECURSIVE JoinTexts(_)
JoinTexts(parts) ==
    IF parts = <<>> THEN ""
    ELSE IF ~Head(parts).has_text THEN JoinTexts(Tail(parts))
    ELSE LET rest == SelectSeq(Tail(parts), LAMBDA q : q.has_text)
         IN IF rest = <<>> THEN Head(parts).text
            ELSE Head(parts).text \o " " \o JoinTexts(rest)

\* TACEvaluator._extract_message_text
extract_message_text(response) ==
    IF response.has_result /\ response.has_parts
    THEN JoinTexts(response.parts)
    ELSE "str(response)"

\* a context id generated for each task whatever the caller supplied
task_context_idPerTask == [kind |-> "uuid4", n |-> idx]

\* context_id or str(uuid.uuid4()), line 189
task_context_id ==
    IF Truthy(context_id) THEN context_id ELSE [kind |-> "uuid4", n |-> idx]

\* the except clause of lines 283-289
Failed(tr, error) ==
    [tr EXCEPT !.status = "failed", !.elapsed_time = "set", !.error = error]

\* SendMessage with the save of step 5 left out
SendMessageNoSave ==
    /\ pc = "step3"
    /\ task_name \notin DOMAIN TRAJECTORIES_DIR
    /\ LET c1 == add_message([NoCollector EXCEPT !.task_name = task_name],
                             "user", task_instruction)
           sent == [message |-> task_instruction, context_id |-> task_context_id]
       IN \/ \E response \in Responses :
              /\ calls' = Append(calls, Call("send", idx, task_name, sent,
                                             [kind |-> "response", r |-> response]))
              /\ collector' = add_message(c1, "agent", extract_message_text(response))
              /\ pc' = "step6"
              /\ UNCHANGED <<task_results, traj_files>>
          \/ \E error \in SendErrors :
              /\ calls' = Append(calls, Call("send", idx, task_name, sent,
                                             Raised(error)))
              /\ collector' = c1
              /\ task_results' = Failed(task_results, error)
              /\ pc' = "return"
              /\ UNCHANGED traj_files
    /\ UNCHANGED <<instructions_file, whitevars, containers, selectors, selections, selector, rng, context_id, skip_docker_eval, tasks,
                   task_images, attempt, idx, all_results, task_instruction,
                   precomputed_instructions, local_images, result_files, outcome>>

\* SendMessage with the transport error swallowed: the task goes on to scoring
SendMessageErrorScored ==
    /\ pc = "step3"
    /\ task_name \notin DOMAIN TRAJECTORIES_DIR
    /\ LET c1 == add_message([NoCollector EXCEPT !.task_name = task_name],
                             "user", task_instruction)
           sent == [message |-> task_instruction, context_id |-> task_context_id]
       IN \/ \E response \in Responses :
              LET c2 == add_message(c1, "agent", extract_message_text(response))
              IN /\ calls' = Append(calls, Call("send", idx, task_name, sent,
                                                [kind |-> "response", r |-> response]))
                 /\ collector' = c2
                 /\ traj_files' = [traj_files EXCEPT
                                      ![task_name] = SavedTrajectory(c2)]
                 /\ pc' = "step6"
                 /\ UNCHANGED task_results
          \/ \E error \in SendErrors :
              /\ calls' = Append(calls, Call("send", idx, task_name, sent,
                                             Raised(error)))
              /\ collector' = c1
              /\ traj_files' = [traj_files EXCEPT
                                   ![task_name] = SavedTrajectory(c1)]
              /\ pc' = "step6"
              /\ UNCHANGED task_results
    /\ UNCHANGED <<instructions_file, whitevars, containers, selectors, selections, selector, rng, context_id, skip_docker_eval, tasks,
                   task_images, attempt, idx, all_results, task_instruction,
                   precomputed_instructions, local_images, result_files, outcome>>

\* SendMessage with one retry of a failed send before the error propagates
SendMessageRetries ==
    /\ pc = "step3"
    /\ task_name \notin DOMAIN TRAJECTORIES_DIR
    /\ LET c1 == add_message([NoCollector EXCEPT !.task_name = task_name],
                             "user", task_instruction)
           sent == [message |-> task_instruction, context_id |-> task_context_id]
       IN \/ \E response \in Responses :
              LET c2 == add_message(c1, "agent", extract_message_text(response))
              IN /\ calls' = Append(calls, Call("send", idx, task_name, sent,
                                                [kind |-> "response", r |-> response]))
                 /\ collector' = c2
                 /\ traj_files' = [traj_files EXCEPT
                                      ![task_name] = SavedTrajectory(c2)]
                 /\ pc' = "step6"
                 /\ UNCHANGED task_results
          \/ \E error \in SendErrors :
              /\ calls' = calls \o <<Call("send", idx, task_name, sent, Raised(error)),
                                     Call("send", idx, task_name, sent, Raised(error))>>
              /\ collector' = c1
              /\ task_results' = Failed(task_results, error)
              /\ pc' = "return"
              /\ UNCHANGED traj_files
    /\ UNCHANGED <<instructions_file, whitevars, containers, selectors, selections, selector, rng, context_id, skip_docker_eval, tasks,
                   task_images, attempt, idx, all_results, task_instruction,
                   precomputed_instructions, local_images, result_files, outcome>>

\* Steps 4 and 5, lines 178-212: no precomputed trajectory
SendMessage ==
    /\ pc = "step3"
    /\ task_name \notin DOMAIN TRAJECTORIES_DIR
    /\ LET c1 == add_message([NoCollector EXCEPT !.task_name = task_name],
                             "user", task_instruction)
           sent == [message |-> task_instruction, context_id |-> task_context_id]
       IN \/ \E response \in Responses :
              LET c2 == add_message(c1, "agent", extract_message_text(response))
              IN /\ calls' = Append(calls, Call("send", idx, task_name, sent,
                                                [kind |-> "response", r |-> response]))
                 /\ collector' = c2
                 /\ traj_files' = [traj_files EXCEPT
                                      ![task_name] = SavedTrajectory(c2)]
                 /\ pc' = "step6"
                 /\ UNCHANGED task_results
          \/ \E error \in SendErrors :
              /\ calls' = Append(calls, Call("send", idx, task_name, sent,
                                             Raised(error)))
              /\ collector' = c1
              /\ task_results' = Failed(task_results, error)
              /\ pc' = "return"
              /\ UNCHANGED traj_files
    /\ UNCHANGED <<instructions_file, whitevars, containers, selectors, selections, selector, rng, context_id, skip_docker_eval, tasks,
                   task_images, attempt, idx, all_results, task_instruction,
                   precomputed_instructions, local_images, result_files, outcome>>

(***************************************************************************)
(* Step 6: scoring                                                         *)
(***************************************************************************)
\* a score object as eval.py writes it
ArtifactScore(total, result) ==
    [kind |-> "dict",
     checkpoints |-> <<[total |-> total, result |-> result]>>,
     final_score |-> [kind |-> "dict", total |-> total, result |-> result],
     task_name |-> Absent, error |-> Absent, note |-> Absent]

NoWrite == [kind |-> "nowrite"]

\* what the container leaves at --result_path: nothing, text that is not
\* JSON, or a JSON document (an object with a score, null, an array); the
\* numbers of a score are whatever the task's checker wrote
ArtifactWrites ==
    {NoWrite,
     [kind |-> "file", parses |-> FALSE, value |-> None],
     [kind |-> "file", parses |-> TRUE, value |-> ArtifactScore(2, 1)],
     [kind |-> "file", parses |-> TRUE, value |-> ArtifactScore(1, 2)],
     [kind |-> "file", parses |-> TRUE, value |-> None],
     [kind |-> "file", parses |-> TRUE, value |-> PyList(<<>>)]}

\* exit code and artifact of one scoring container; -1 is the 900s timeout
\* or a launch failure of _run_command; a container may exit non-zero after
\* it wrote its artifact
EvalOutcomes ==
    {[rc |-> 0, write |-> w] : w \in ArtifactWrites}
        \cup {[rc |-> 1, write |-> NoWrite], [rc |-> -1, write |-> NoWrite],
              [rc |-> 1, write |-> [kind |-> "file", parses |-> TRUE,
                                    value |-> ArtifactScore(2, 1)]]}

\* run_evaluation that reads the artifact whatever the exit code
run_evaluationIgnoresExit(rc, file) ==
    IF file = Missing THEN None
    ELSE IF ~file.parses THEN None
    ELSE file.value

\* DockerManager.run_evaluation, lines 390-413: the value returned when the
\* container exited with rc and output_path then holds file
run_evaluation(rc, file) ==
    IF rc # 0 THEN None
    ELSE IF file = Missing THEN None
    ELSE IF ~file.parses THEN None
    ELSE file.value

\* line 281 evaluates evaluation_result.get('final_score', {}).get(...): an
\* AttributeError unless both are dictionaries
ScoreLineRaises(ev) ==
    \/ ev.kind # "dict"
    \/ ev.final_score.kind # "dict"

\* FinishTask that treats "could not score" as a failure of the task
FinishTaskNullFails(tr, returned) ==
    IF returned = None
    THEN Failed(tr, "Docker evaluation returned no results")
    ELSE LET updated == [tr EXCEPT !.status = "completed",
                                   !.elapsed_time = "set",
                                   !.evaluation = returned,
                                   !.trajectory_path = trajectory_path]
         IN IF ScoreLineRaises(returned)
            THEN Failed(updated, "'list' object has no attribute 'get'")
            ELSE updated

\* lines 251-258 and 271-289
FinishTask(tr, returned) ==
    LET evaluation_result ==
            IF returned = None
            THEN Placeholder(tr.task_name,
                             "Docker evaluation returned no results", Absent)
            ELSE returned
        updated == [tr EXCEPT !.status = "completed",
                              !.elapsed_time = "set",
                              !.evaluation = evaluation_result,
                              !.trajectory_path = trajectory_path]
    IN IF ScoreLineRaises(evaluation_result)
       THEN Failed(updated, "'list' object has no attribute 'get'")
       ELSE updated

\* Step 6 with SKIP_DOCKER_EVAL=true, lines 231-238 and 271-281
SkipEvaluation ==
    /\ pc = "step6"
    /\ skip_docker_eval
    /\ task_results' =
          FinishTask(task_results,
              Placeholder(task_name, Absent, "Docker evaluation skipped for speed"))
    /\ pc' = "return"
    /\ UNCHANGED <<instructions_file, whitevars, containers, selectors, selections, selector, rng, context_id, skip_docker_eval, tasks,
                   task_images, attempt, idx, all_results, task_instruction,
                   collector, precomputed_instructions, local_images,
                   traj_files, result_files, calls, outcome>>

\* Step 6, lines 239-281
RunEvaluation ==
    /\ pc = "step6"
    /\ ~skip_docker_eval
    /\ \E o \in EvalOutcomes :
        LET files == IF o.write = NoWrite THEN result_files
                     ELSE [result_files EXCEPT ![task_name] = o.write]
        IN /\ result_files' = files
           /\ task_results' =
                 FinishTask(task_results, run_evaluation(o.rc, files[task_name]))
           /\ calls' = Append(calls, Call("run_evaluation", idx, task_name,
                    [image |-> task_image, trajectory_path |-> trajectory_path],
                    run_evaluation(o.rc, files[task_name])))
    /\ pc' = "return"
    /\ UNCHANGED <<instructions_file, whitevars, containers, selectors, selections, selector, rng, context_id, skip_docker_eval, tasks,
                   task_images, attempt, idx, all_results, task_instruction,
                   collector, precomputed_instructions, local_images,
                   traj_files, outcome>>

\* RecordResult that keeps only the results of completed tasks
RecordResultDropsFailed ==
    /\ pc = "return"
    /\ all_results' = IF task_results.status = "failed" THEN all_results
                      ELSE Append(all_results, task_results)
    /\ idx' = idx + 1
    /\ pc' = "loop"
    /\ UNCHANGED <<instructions_file, whitevars, containers, selectors, selections, selector, rng, context_id, skip_docker_eval, tasks,
                   task_images, attempt, task_results, task_instruction,
                   collector, precomputed_instructions, local_images,
                   traj_files, result_files, calls, outcome>>

\* return task_results, and all_results.append(result) of line 361
RecordResult ==
    /\ pc = "return"
    /\ all_results' = Append(all_results, task_results)
    /\ idx' = idx + 1
    /\ pc' = "loop"
    /\ UNCHANGED <<instructions_file, whitevars, containers, selectors, selections, selector, rng, context_id, skip_docker_eval, tasks,
                   task_images, attempt, task_results, task_instruction,
                   collector, precomputed_instructions, local_images,
                   traj_files, result_files, calls, outcome>>

(***************************************************************************)
(* _aggregate_results                                                      *)
(***************************************************************************)
RECURSIVE SumScores(_, _)
SumScores(results, field) ==
    IF results = <<>> THEN 0
    ELSE (IF Head(results).status = "completed"
          THEN Head(results).evaluation.final_score[field] ELSE 0)
         + SumScores(Tail(results), field)

\* CountStatus that counts every result, whatever its status
CountStatusUnfiltered(results, status) ==
    Len(results)

CountStatus(results, status) ==
    Cardinality({i \in 1..Len(results) : results[i].status = status})

\* overall_score is the fraction num/den; 0.0 is 0/1
aggregate_results(results) ==
    LET total_score == SumScores(results, "result")
        total_possible == SumScores(results, "total")
    IN [summary |->
           [total_tasks |-> Len(results),
            completed |-> CountStatus(results, "completed"),
            failed |-> CountStatus(results, "failed"),
            total_score |-> total_score,
            total_possible |-> total_possible,
            overall_score |-> IF total_possible > 0
                              THEN [num |-> total_score, den |-> total_possible]
                              ELSE [num |-> 0, den |-> 1]],
        tasks |-> results]

\* Aggregate that also ends the loop after a failed task
AggregateAfterFailure ==
    /\ pc = "loop"
    /\ \/ idx > ZipLen
       \/ idx > 1 /\ all_results[Len(all_results)].status = "failed"
    /\ outcome' = [kind |-> "returned", value |-> aggregate_results(all_results)]
    /\ pc' = "done"
    /\ UNCHANGED <<instructions_file, whitevars, containers, selectors, selections, selector, rng, context_id, skip_docker_eval, tasks,
                   task_images, attempt, idx, all_results, task_results,
                   task_instruction, collector, precomputed_instructions,
                   local_images, traj_files, result_files, calls>>

\* the loop is exhausted: lines 363-370
Aggregate ==
    /\ pc = "loop"
    /\ idx > ZipLen
    /\ outcome' = [kind |-> "returned", value |-> aggregate_results(all_results)]
    /\ pc' = "done"
    /\ UNCHANGED <<instructions_file, whitevars, containers, selectors, selections, selector, rng, context_id, skip_docker_eval, tasks,
                   task_images, attempt, idx, all_results, task_results,
                   task_instruction, collector, precomputed_instructions,
                   local_images, traj_files, result_files, calls>>

Next ==
    \/ SelectTasks
    \/ PollReady
    \/ BeginTask
    \/ PullImage
    \/ GetInstruction
    \/ CopyTrajectory
    \/ SendMessage
    \/ SkipEvaluation
    \/ RunEvaluation
    \/ RecordResult
    \/ Aggregate

Spec == Init /\ [][Next]_vars

\* a run whatever is at INSTRUCTIONS_FILE: a selector of the default list
\* or of a name list, without seed and limit
InitCache ==
    /\ selector \in [subset : {None}, task_names : TaskNameLists,
                     max_tasks : {None}, random_seed : {PyInt(0)}]
    /\ rng = SeedRng(selector.random_seed.v)
    /\ instructions_file \in InstructionFiles
    /\ context_id = None
    /\ skip_docker_eval \in BOOLEAN
    /\ pc = "select"
    /\ tasks = <<>>
    /\ task_images = <<>>
    /\ attempt = 0
    /\ idx = 1
    /\ all_results = <<>>
    /\ task_results = NoTaskResults
    /\ task_instruction = Absent
    /\ collector = NoCollector
    /\ precomputed_instructions = None
    /\ local_images = {get_task_image_name("pm-schedule-meeting-2")}
    /\ traj_files = [t \in TaskNames |-> Missing]
    /\ result_files = [t \in TaskNames |-> Missing]
    /\ calls = <<>>
    /\ outcome = AbsentV
    /\ selectors = <<>>
    /\ selections = <<>>
    /\ containers = {}
    /\ NoRequests

SpecCache == InitCache /\ [][Next]_vars

\* every call of a run answers or hits its timeout (the polls of
\* wait_agent_ready, the docker commands of _run_command, the send, the
\* scoring), so the step the run is at is eventually taken
SpecFair == Spec /\ WF_vars(Next)

(***************************************************************************)
(* TaskSelector on its own: selectors are constructed and asked for their  *)
(* selection in any order.  All of them share the generator of the random  *)
(* module.  selector is the request under study; selectors built from      *)
(* another request stand for the rest of the process.                      *)
(***************************************************************************)
SelTaskNameLists == TaskNameLists \cup {PyList(<<>>)}

SelSubsets == Subsets \cup {PyStr("advanced"), PyStr("nonexistent-subset")}

SelMaxTaskValues == MaxTaskValues \cup {PyInt(0), PyInt(2)}

\* the requests of the other selectors of the process
OtherSelectors ==
    {[subset |-> None, task_names |-> None, max_tasks |-> PyInt(1),
      random_seed |-> PyInt(2)]}

\* the variables of evaluate_tasks, which no selector touches
runvars == <<instructions_file, whitevars, context_id, skip_docker_eval, pc, tasks, task_images, attempt,
             idx, all_results, task_results, task_instruction, collector,
             precomputed_instructions, local_images, traj_files,
             result_files, calls, outcome, containers>>

\* no selector exists yet; the generator is in whatever state the process
\* left it
InitSelect ==
    /\ selector \in [subset : SelSubsets, task_names : SelTaskNameLists,
                     max_tasks : SelMaxTaskValues, random_seed : Seeds]
    /\ rng \in 0..(RngMod - 1)
    /\ selectors = <<>>
    /\ selections = <<>>
    /\ containers = {}
    /\ context_id = None
    /\ skip_docker_eval = FALSE
    /\ pc = "idle"
    /\ tasks = <<>>
    /\ task_images = <<>>
    /\ attempt = 0
    /\ idx = 1
    /\ all_results = <<>>
    /\ task_results = NoTaskResults
    /\ task_instruction = Absent
    /\ collector = NoCollector
    /\ precomputed_instructions = None
    /\ local_images = {}
    /\ traj_files = [t \in TaskNames |-> Missing]
    /\ result_files = [t \in TaskNames |-> Missing]
    /\ calls = <<>>
    /\ outcome = AbsentV
    /\ NoRequests
    /\ instructions_file = [kind |-> "dict", d |-> TASK_INSTRUCTIONS_FILE]

\* TaskSelector.__init__, lines 292-317: the fields are stored and a seed,
\* when given, reseeds the generator of the random module
TaskSelector(sel) ==
    /\ Len(selectors) < MaxSelectors
    /\ selectors' = Append(selectors, sel)
    /\ rng' = IF sel.random_seed # None THEN SeedRng(sel.random_seed.v) ELSE rng
    /\ UNCHANGED <<selector, selections>>
    /\ UNCHANGED runvars

\* a selector is built from the request under study
Construct == TaskSelector(selector)

\* a selector is built from another request
ConstructOther == \E sel \in OtherSelectors : TaskSelector(sel)

\* selectors[i].select_tasks() is called and returns or raises
CallSelect ==
    /\ Len(selections) < MaxSelectCalls
    /\ \E i \in 1..Len(selectors) :
          LET s == select_tasks(selectors[i], rng)
          IN /\ selections' = Append(selections,
                    [sel |-> i,
                     ret |-> IF s.ok THEN PyList(s.tasks) ELSE Raised("ValueError")])
             /\ rng' = s.rng
    /\ UNCHANGED <<selector, selectors>>
    /\ UNCHANGED runvars

NextSelect ==
    \/ Construct
    \/ ConstructOther
    \/ CallSelect

SpecSelect == InitSelect /\ [][NextSelect]_vars

(***************************************************************************)
(* DockerManager on its own: its methods are awaited one after the other,  *)
(* in any order, against a docker whose answers are chosen with \E.        *)
(* _run_command, lines 447-476, starts the docker client and waits for it  *)
(* for at most the timeout: a client that has not finished by then is      *)
(* abandoned without being killed, and the call answers returncode -1.     *)
(***************************************************************************)
DockerTasks == {"pm-send-hello-message"}

DockerImages == {get_task_image_name(t) : t \in DockerTasks}

\* f"tac_instruction_{os.getpid()}", docker_manager.py line 75
InstructionContainer == "tac_instruction_<pid>"

\* f"tac_eval_{task_name}_{os.getpid()}_{int(time.time())}", evaluator.py
\* line 226; n tells the calls of one task apart
EvalContainer(task, n) == "tac_eval_" \o task \o "_<pid>_" \o ToString(n)

\* how a docker run command ends under _run_command
RunEndings == {"exit0", "exit1", "nolaunch", "timeout"}

\* docker run --name refuses a name that is in use and exits with 125
Endings(name) ==
    IF \E c \in containers : c.name = name THEN {"conflict"} ELSE RunEndings

returncode(ending) ==
    CASE ending = "exit0" -> 0
      [] ending = "exit1" -> 1
      [] ending = "conflict" -> 125
      [] OTHER -> -1

\* the running docker run commands after one more has ended in ending: --rm
\* removes a container that exited, a timed-out one is left running
Started(name, image, ending) ==
    IF ending = "timeout"
    THEN containers \cup {[name |-> name, image |-> image]}
    ELSE containers

dockerframe == <<instructions_file, whitevars, selector, rng, context_id, skip_docker_eval, pc, tasks,
                 task_images, attempt, idx, all_results, task_results,
                 task_instruction, collector, precomputed_instructions,
                 traj_files, outcome, selectors, selections>>

InitDocker ==
    /\ local_images \in SUBSET DockerImages
    /\ containers = {}
    /\ result_files = [t \in TaskNames |-> Missing]
    /\ calls = <<>>
    /\ selector = [subset |-> None, task_names |-> None, max_tasks |-> None,
                   random_seed |-> None]
    /\ rng = 0
    /\ selectors = <<>>
    /\ selections = <<>>
    /\ context_id = None
    /\ skip_docker_eval = FALSE
    /\ pc = "idle"
    /\ tasks = <<>>
    /\ task_images = <<>>
    /\ attempt = 0
    /\ idx = 1
    /\ all_results = <<>>
    /\ task_results = NoTaskResults
    /\ task_instruction = Absent
    /\ collector = NoCollector
    /\ precomputed_instructions = None
    /\ traj_files = [t \in TaskNames |-> Missing]
    /\ outcome = AbsentV
    /\ NoRequests
    /\ instructions_file = [kind |-> "dict", d |-> TASK_INSTRUCTIONS_FILE]

\* await docker_manager.pull_image(image)
DockerPullImage ==
    /\ Len(calls) < MaxDockerCalls
    /\ \E image \in DockerImages, check_ok \in BOOLEAN, pull_rc \in PullExitCodes :
        /\ calls' = Append(calls, Call("pull_image", 0, Absent,
                        [image |-> image,
                         present |-> image \in local_images,
                         checked |-> check_ok,
                         pulled |-> PullRuns(image, check_ok),
                         pull_rc |-> IF PullRuns(image, check_ok)
                                     THEN PyInt(pull_rc) ELSE None],
                        PyBool(pull_image(image, check_ok, pull_rc))))
        /\ local_images' = IF PullRuns(image, check_ok) /\ pull_rc = 0
                           THEN local_images \cup {image}
                           ELSE local_images
    /\ UNCHANGED <<containers, result_files>>
    /\ UNCHANGED dockerframe

\* await docker_manager.get_task_instruction(image)
DockerGetInstruction ==
    /\ Len(calls) < MaxDockerCalls
    /\ \E image \in DockerImages, ending \in Endings(InstructionContainer) :
        /\ calls' = Append(calls, Call("get_task_instruction", 0, Absent,
                        [image |-> image, ending |-> ending,
                         returncode |-> returncode(ending)],
                        PyStr(get_task_instruction(image, returncode(ending)))))
        /\ containers' = Started(InstructionContainer, image, ending)
    /\ UNCHANGED <<local_images, result_files>>
    /\ UNCHANGED dockerframe

\* await docker_manager.run_evaluation(image, container_name, ..., output_path)
\* for the image and the result file of task
DockerRunEvaluation ==
    /\ Len(calls) < MaxDockerCalls
    /\ \E task \in DockerTasks, write \in ArtifactWrites :
       \E ending \in Endings(EvalContainer(task, Len(calls))) :
        LET files == IF write = NoWrite \/ ending \in {"nolaunch", "conflict"}
                     THEN result_files
                     ELSE [result_files EXCEPT ![task] = write]
        IN /\ result_files' = files
           /\ calls' = Append(calls, Call("run_evaluation", 0, task,
                    [image |-> get_task_image_name(task), ending |-> ending,
                     returncode |-> returncode(ending),
                     file |-> files[task]],
                    run_evaluation(returncode(ending), files[task])))
           /\ containers' = Started(EvalContainer(task, Len(calls)),
                                    get_task_image_name(task), ending)
    /\ UNCHANGED local_images
    /\ UNCHANGED dockerframe

\* how docker rm -f ends under _run_command, which has no timeout here: exit
\* 0, exit 1 (the daemon refuses, or an older docker that finds no such
\* container), or the client could not be launched
CleanupExitCodes == {0, 1, -1}

\* docker rm -f that takes every running container with it
RemovedAll(name, rc) == IF rc = 0 THEN {} ELSE containers

\* the running containers after docker rm -f name has ended with rc
Removed(name, rc) ==
    IF rc = 0 THEN {c \in containers : c.name # name} ELSE containers

\* cleanup_container, lines 415-430: True exactly on exit 0, never raises
cleanup_container(rc) == PyBool(rc = 0)

\* await docker_manager.cleanup_container(name), for the name of a running
\* container or for the name of the instruction container
DockerCleanup ==
    /\ Len(calls) < MaxDockerCalls
    /\ \E name \in {c.name : c \in containers} \cup {InstructionContainer},
          rc \in CleanupExitCodes :
        /\ calls' = Append(calls, Call("cleanup_container", 0, Absent,
                        [name |-> name,
                         present |-> \E c \in containers : c.name = name],
                        cleanup_container(rc)))
        /\ containers' = Removed(name, rc)
    /\ UNCHANGED <<local_images, result_files>>
    /\ UNCHANGED dockerframe

\* an abandoned docker run command ends on its own
ContainerExits ==
    /\ \E c \in containers : containers' = containers \ {c}
    /\ UNCHANGED <<local_images, result_files, calls>>
    /\ UNCHANGED dockerframe

NextDocker ==
    \/ DockerPullImage
    \/ DockerGetInstruction
    \/ DockerRunEvaluation
    \/ DockerCleanup
    \/ ContainerExits

SpecDocker == InitDocker /\ [][NextDocker]_vars

(***************************************************************************)
(* wait_agent_ready on its own (a2a_client.py, lines 8-44): the launcher   *)
(* and the evaluator call it one call after the other; one poll of the     *)
(* agent card per step, attempt is the loop variable, and a returning call *)
(* is logged with the number of polls it made and the answer of the last.  *)
(***************************************************************************)
\* what one GET of the agent card gives: status 200, another status, or an
\* exception of httpx (connection refused, the 5 s timeout)
PollAnswers == {"200", "not200", "error"}

readyframe == <<instructions_file, whitevars, selector, rng, context_id, skip_docker_eval, pc, tasks,
                task_images, idx, all_results, task_results,
                task_instruction, collector, precomputed_instructions,
                local_images, traj_files, result_files, outcome, selectors,
                selections, containers>>

InitReady ==
    /\ attempt = 0
    /\ calls = <<>>
    /\ pc = "wait_ready"
    /\ selector = [subset |-> None, task_names |-> None, max_tasks |-> None,
                   random_seed |-> None]
    /\ rng = 0
    /\ selectors = <<>>
    /\ selections = <<>>
    /\ containers = {}
    /\ context_id = None
    /\ skip_docker_eval = FALSE
    /\ tasks = <<>>
    /\ task_images = <<>>
    /\ idx = 1
    /\ all_results = <<>>
    /\ task_results = NoTaskResults
    /\ task_instruction = Absent
    /\ collector = NoCollector
    /\ precomputed_instructions = None
    /\ local_images = {}
    /\ traj_files = [t \in TaskNames |-> Missing]
    /\ result_files = [t \in TaskNames |-> Missing]
    /\ outcome = AbsentV
    /\ NoRequests
    /\ instructions_file = [kind |-> "dict", d |-> TASK_INSTRUCTIONS_FILE]

\* the return of wait_agent_ready after a poll answered with answer
ReadyReturn(answer, value) ==
    /\ calls' = Append(calls, Call("wait_agent_ready", 0, Absent,
                                   [polls |-> attempt + 1, last |-> answer],
                                   PyBool(value)))
    /\ attempt' = 0

\* one iteration that takes any answered request for a ready agent
WaitAgentReadyAnyStatus ==
    /\ Len(calls) < MaxReadyCalls
    /\ attempt < max_attempts
    /\ \E answer \in PollAnswers :
        IF answer # "error"
        THEN ReadyReturn(answer, TRUE)
        ELSE IF attempt + 1 = max_attempts
        THEN ReadyReturn(answer, FALSE)
        ELSE attempt' = attempt + 1 /\ UNCHANGED calls
    /\ UNCHANGED readyframe

\* one iteration of the for loop of wait_agent_ready, lines 26-42
WaitAgentReady ==
    /\ Len(calls) < MaxReadyCalls
    /\ attempt < max_attempts
    /\ \E answer \in PollAnswers :
        IF answer = "200"
        THEN ReadyReturn(answer, TRUE)
        ELSE IF attempt + 1 = max_attempts
        THEN ReadyReturn(answer, FALSE)
        ELSE attempt' = attempt + 1 /\ UNCHANGED calls
    /\ UNCHANGED readyframe

NextReady == WaitAgentReady

\* every request of a poll answers or hits its 5 s timeout, and the sleep
\* between two polls ends
SpecReady == InitReady /\ [][NextReady]_vars /\ WF_vars(WaitAgentReady)

(***************************************************************************)
(* _extract_message_text on its own (evaluator.py, lines 296-321): one     *)
(* call on a response drawn from the shapes an A2A response can have.      *)
(***************************************************************************)
\* a part whose root carries text, and a part without text (a file or data
\* part, or a part without root)
PartKinds ==
    {[has_text |-> TRUE, text |-> "a"], [has_text |-> TRUE, text |-> "b"],
     [has_text |-> FALSE, text |-> Absent]}

\* responses with a result that has parts, a result without parts (a Task),
\* and an error response without result
ExtractResponses ==
    {[has_result |-> TRUE, has_parts |-> TRUE, parts |-> p] :
        p \in UNION {[1..n -> PartKinds] : n \in 0..MaxParts}}
      \cup {[has_result |-> TRUE, has_parts |-> FALSE, parts |-> <<>>],
            [has_result |-> FALSE, has_parts |-> FALSE, parts |-> <<>>]}

\* agent_response = self._extract_message_text(response), line 202
ExtractMessageText ==
    /\ calls = <<>>
    /\ \E response \in ExtractResponses :
          calls' = <<Call("_extract_message_text", 0, Absent, response,
                          PyStr(extract_message_text(response)))>>
    /\ UNCHANGED <<attempt>>
    /\ UNCHANGED readyframe

NextExtract == ExtractMessageText

\* nothing has been called yet: the empty call log of InitReady
SpecExtract == InitReady /\ [][NextExtract]_vars

(***************************************************************************)
(* TrajectoryCollector on its own (trajectory_collector.py): one collector *)
(* of either class, its methods called in any order, the file it saves     *)
(* loaded again with json.load.  Values are Python values; json.dump and   *)
(* json.load are the conversions between them and the JSON text.           *)
(***************************************************************************)
CollectorTask == "pm-send-hello-message"

CollectorClasses == {"TrajectoryCollector", "A2ATrajectoryCollector"}

\* time.time(): the clock moves with every call
now == PyFloat(Len(calls) + 1)

\* json.dump: the JSON value written for a Python value.  None is null, a
\* str a string, an int a number without and a float a number with a
\* fraction, a list and a tuple alike an array, a dict an object.
RECURSIVE json_dump(_)
json_dump(v) ==
    CASE v.kind = "None" -> [json |-> "null"]
      [] v.kind = "str" -> [json |-> "string", s |-> v.s]
      [] v.kind = "bool" -> [json |-> "bool", v |-> v.v]
      [] v.kind = "int" -> [json |-> "number", fraction |-> FALSE, v |-> v.v]
      [] v.kind = "float" -> [json |-> "number", fraction |-> TRUE, v |-> v.v]
      [] v.kind \in {"list", "tuple"} ->
            [json |-> "array",
             items |-> [i \in 1..Len(v.items) |-> json_dump(v.items[i])]]
      [] v.kind = "dict" ->
            [json |-> "object",
             members |-> [k \in DOMAIN v.d |-> json_dump(v.d[k])]]

\* json.load: the Python value read from a JSON value; an array is a list
RECURSIVE json_load(_)
json_load(j) ==
    CASE j.json = "null" -> None
      [] j.json = "string" -> PyStr(j.s)
      [] j.json = "bool" -> PyBool(j.v)
      [] j.json = "number" -> IF j.fraction THEN PyFloat(j.v) ELSE PyInt(j.v)
      [] j.json = "array" ->
            PyList([i \in 1..Len(j.items) |-> json_load(j.items[i])])
      [] j.json = "object" ->
            PyDict([k \in DOMAIN j.members |-> json_load(j.members[k])])

\* add_action that puts the new record in front
add_actionPrepends(c, action_type, action_data, timestamp) ==
    [c EXCEPT !.actions = <<PyDict([type |-> PyStr(action_type),
                  timestamp |-> IF timestamp = None THEN now ELSE timestamp,
                  data |-> action_data])>> \o c.actions]

\* TrajectoryCollector.add_action, lines 23-45
add_action(c, action_type, action_data, timestamp) ==
    [c EXCEPT !.actions = Append(c.actions,
        PyDict([type |-> PyStr(action_type),
                timestamp |-> IF timestamp = None THEN now ELSE timestamp,
                data |-> action_data]))]

\* lines 47-79
add_bash_command(c, command, output) ==
    add_action(c, "bash", PyDict([command |-> command, output |-> output]),
               None)

add_file_read(c, path, content) ==
    add_action(c, "read_file", PyDict([path |-> path, content |-> content]),
               None)

add_file_write(c, path, content) ==
    add_action(c, "write_file", PyDict([path |-> path, content |-> content]),
               None)

add_browser_navigation(c, url) ==
    add_action(c, "goto_url", PyDict([url |-> url]), None)

\* TrajectoryCollector.add_message, lines 73-79
send_message_action(c, recipient, content) ==
    add_action(c, "send_message",
               PyDict([recipient |-> recipient, content |-> content]), None)

\* the dict of get_trajectory, lines 105-114, and of save, lines 90-97
trajectory(c) ==
    PyDict([task_name |-> PyStr(c.task_name),
            start_time |-> c.start_time,
            end_time |-> now,
            duration |-> PyFloat(now.v - c.start_time.v),
            actions |-> PyList(c.actions),
            action_count |-> PyInt(Len(c.actions))])

\* the dict A2ATrajectoryCollector.save writes, lines 162-165
a2a_trajectory(c) ==
    PyDict([task_name |-> PyStr(c.task_name),
            start_time |-> c.start_time,
            end_time |-> now,
            duration |-> PyFloat(now.v - c.start_time.v),
            actions |-> PyList(c.actions),
            action_count |-> PyInt(Len(c.actions)),
            messages |-> PyList([i \in 1..Len(c.messages) |->
                PyDict([role |-> PyStr(c.messages[i].role),
                        content |-> PyStr(c.messages[i].content),
                        message_id |-> c.messages[i].message_id,
                        timestamp |-> PyFloat(c.messages[i].timestamp)])])])

\* payloads handed to add_action directly: one of JSON values only, one
\* with a tuple
ActionData ==
    {PyDict([command |-> PyStr("ls")]),
     PyDict([argv |-> PyTuple(<<PyStr("ls"), PyStr("-l")>>)])}

collectorframe == <<instructions_file, whitevars, selector, rng, context_id, skip_docker_eval, pc, tasks,
                    task_images, attempt, idx, all_results, task_results,
                    task_instruction, precomputed_instructions, local_images,
                    result_files, outcome, selectors, selections, containers>>

\* __init__, lines 12-21 and 126-128
InitCollector ==
    /\ \E class \in CollectorClasses :
          collector = [class |-> class, task_name |-> CollectorTask,
                       actions |-> <<>>, messages |-> <<>>,
                       start_time |-> PyFloat(0)]
    /\ traj_files = [t \in TaskNames |-> Missing]
    /\ calls = <<>>
    /\ attempt = 0
    /\ pc = "idle"
    /\ selector = [subset |-> None, task_names |-> None, max_tasks |-> None,
                   random_seed |-> None]
    /\ rng = 0
    /\ selectors = <<>>
    /\ selections = <<>>
    /\ containers = {}
    /\ context_id = None
    /\ skip_docker_eval = FALSE
    /\ tasks = <<>>
    /\ task_images = <<>>
    /\ idx = 1
    /\ all_results = <<>>
    /\ task_results = NoTaskResults
    /\ task_instruction = Absent
    /\ precomputed_instructions = None
    /\ local_images = {}
    /\ result_files = [t \in TaskNames |-> Missing]
    /\ outcome = AbsentV
    /\ NoRequests
    /\ instructions_file = [kind |-> "dict", d |-> TASK_INSTRUCTIONS_FILE]

\* one call on the collector: what it leaves of the collector, logged
Added(op, c) ==
    /\ Len(calls) < MaxCollectorCalls
    /\ collector' = c
    /\ calls' = Append(calls, Call(op, 0, CollectorTask, AbsentV, None))
    /\ UNCHANGED traj_files
    /\ UNCHANGED collectorframe

AddAction ==
    \E action_data \in ActionData, timestamp \in {None, PyInt(3)} :
        Added("add_action", add_action(collector, "bash", action_data,
                                       timestamp))

AddBashCommand ==
    \E output \in {None, PyStr("a.txt")} :
        Added("add_bash_command",
              add_bash_command(collector, PyStr("ls"), output))

AddFileRead ==
    Added("add_file_read", add_file_read(collector, PyStr("/a.txt"), None))

AddFileWrite ==
    Added("add_file_write",
          add_file_write(collector, PyStr("/a.txt"), PyStr("text")))

AddBrowserNavigation ==
    Added("add_browser_navigation",
          add_browser_navigation(collector, PyStr("http://the-agent-company.com")))

\* add_message: of TrajectoryCollector, lines 73-79, or the override of
\* A2ATrajectoryCollector, lines 130-146
AddMessage ==
    IF collector.class = "A2ATrajectoryCollector"
    THEN Added("a2a_add_message", add_message(collector, "user", "hello"))
    ELSE Added("add_message",
               send_message_action(collector, PyStr("user"), PyStr("hello")))

\* the timestamp of an action cut to whole seconds
WholeSeconds(action) ==
    [action EXCEPT !.d.timestamp = PyInt(action.d.timestamp.v)]

\* save that writes the timestamps of the actions in whole seconds
SaveWholeSeconds ==
    /\ Len(calls) < MaxCollectorCalls
    /\ LET written == IF collector.class = "A2ATrajectoryCollector"
                      THEN a2a_trajectory(collector)
                      ELSE trajectory(collector)
           cut == [written EXCEPT !.d.actions.items =
                      [i \in 1..Len(collector.actions) |->
                          WholeSeconds(collector.actions[i])]]
       IN /\ traj_files' = [traj_files EXCEPT
                               ![CollectorTask] = json_dump(cut)]
          /\ calls' = Append(calls, Call("save", 0, CollectorTask, written,
                                         PyStr("output_path")))
    /\ UNCHANGED collector
    /\ UNCHANGED collectorframe

\* save(output_path): the dict of the collector's class goes through
\* json.dump into the file
Save ==
    /\ Len(calls) < MaxCollectorCalls
    /\ LET written == IF collector.class = "A2ATrajectoryCollector"
                      THEN a2a_trajectory(collector)
                      ELSE trajectory(collector)
       IN /\ traj_files' = [traj_files EXCEPT
                               ![CollectorTask] = json_dump(written)]
          /\ calls' = Append(calls, Call("save", 0, CollectorTask, written,
                                         PyStr("output_path")))
    /\ UNCHANGED collector
    /\ UNCHANGED collectorframe

GetTrajectory ==
    /\ Len(calls) < MaxCollectorCalls
    /\ calls' = Append(calls, Call("get_trajectory", 0, CollectorTask,
                                   AbsentV, trajectory(collector)))
    /\ UNCHANGED <<collector, traj_files>>
    /\ UNCHANGED collectorframe

\* json.load of the saved file
Load ==
    /\ Len(calls) < MaxCollectorCalls
    /\ traj_files[CollectorTask] # Missing
    /\ calls' = Append(calls, Call("load", 0, CollectorTask, AbsentV,
                                   json_load(traj_files[CollectorTask])))
    /\ UNCHANGED <<collector, traj_files>>
    /\ UNCHANGED collectorframe

NextCollector ==
    \/ AddAction
    \/ AddBashCommand
    \/ AddFileRead
    \/ AddFileWrite
    \/ AddBrowserNavigation
    \/ AddMessage
    \/ Save
    \/ GetTrajectory
    \/ Load

SpecCollector == InitCollector /\ [][NextCollector]_vars

(***************************************************************************)
(* The white agent (white_agent/agent.py): GeneralWhiteAgentExecutor       *)
(* serves one execute request after the other.  One step is the start of   *)
(* execute up to the loop, or one iteration of the tool-calling loop, with  *)
(* everything that follows it when the loop ends.  The model's answers and  *)
(* the outcomes of the tools are chosen with \E.                           *)
(***************************************************************************)
WhiteContexts == {PyStr("ctx-a"), PyStr("ctx-b")}

\* what completion() does: raises a rate-limit error, raises another
\* error, answers without tool calls, answers with tool calls
CompletionOutcomes == {"rate_limit", "error", "final", "tool_calls"}

\* what handling one tool call does: json.loads of the arguments or
\* execute_tool raises (arguments that are not JSON, a missing argument
\* key), or the tool returns a result with success True or False
ToolOutcomes == {"raises", "success", "failure"}

\* self.ctx_id_to_messages.get(ctx, [])
History(ctx) ==
    IF ctx \in DOMAIN ctx_id_to_messages THEN ctx_id_to_messages[ctx] ELSE <<>>

\* self.ctx_id_to_messages with the list of ctx replaced by msgs
WithHistory(ctx, msgs) ==
    [c \in DOMAIN ctx_id_to_messages \cup {ctx} |->
        IF c = ctx THEN msgs ELSE ctx_id_to_messages[c]]

\* event_queue.enqueue_event(new_agent_text_message(...)) of request r
Enqueued(q, r, text) == Append(q, [request |-> r, text |-> text])

\* lines 517-522, after the loop: the notice of the iteration limit
AfterLoop(q, r, it) ==
    IF it >= MaxIterations THEN Enqueued(q, r, "max_iterations") ELSE q

\* the last n elements of s
Last(s, n) == SubSeq(s, Len(s) - Min(Len(s), n) + 1, Len(s))

Count(s, x) == Cardinality({i \in 1..Len(s) : s[i] = x})

\* lines 401-483: the tool calls ids[j..] of one assistant message, with
\* outcomes outs, handled one after the other from st; a call that raises
\* ends the handling
RECURSIVE RunTools(_, _, _, _)
RunTools(st, ids, outs, j) ==
    IF j > Len(ids) THEN st
    ELSE IF outs[j] = "raises" THEN [st EXCEPT !.raised = TRUE]
    ELSE LET command_signature ==
                 [tool_name |-> "execute_bash", tool_args |-> "command",
                  failed |-> outs[j] = "failure"]
             recent == Last(Append(st.recent_commands, command_signature), 10)
             loop_warning ==
                 /\ outs[j] = "failure"
                 /\ Count(Last(recent, 5), command_signature) >= 3
         IN RunTools([messages |-> Append(st.messages,
                          [role |-> "tool", tool_call_id |-> ids[j],
                           loop_warning |-> loop_warning]),
                      recent_commands |-> recent,
                      raised |-> FALSE], ids, outs, j + 1)

whiteframe == <<instructions_file, selector, rng, skip_docker_eval, tasks, task_images, attempt,
                idx, all_results, task_results, task_instruction, collector,
                precomputed_instructions, local_images, traj_files,
                result_files, calls, outcome, selectors, selections,
                containers>>

InitWhite ==
    /\ NoRequests
    /\ pc = "idle"
    /\ context_id = None
    /\ selector = [subset |-> None, task_names |-> None, max_tasks |-> None,
                   random_seed |-> None]
    /\ rng = 0
    /\ selectors = <<>>
    /\ selections = <<>>
    /\ containers = {}
    /\ skip_docker_eval = FALSE
    /\ tasks = <<>>
    /\ task_images = <<>>
    /\ attempt = 0
    /\ idx = 1
    /\ all_results = <<>>
    /\ task_results = NoTaskResults
    /\ task_instruction = Absent
    /\ collector = NoCollector
    /\ precomputed_instructions = None
    /\ local_images = {}
    /\ traj_files = [t \in TaskNames |-> Missing]
    /\ result_files = [t \in TaskNames |-> Missing]
    /\ calls = <<>>
    /\ outcome = AbsentV
    /\ instructions_file = [kind |-> "dict", d |-> TASK_INSTRUCTIONS_FILE]

\* execute, lines 231-370: the history of the context gets the system
\* message when it is empty and the user message; without an API key the
\* error is enqueued and execute returns
Execute ==
    /\ pc = "idle"
    /\ request < MaxRequests
    /\ \E ctx \in WhiteContexts, api_key \in BOOLEAN :
        LET r == request + 1
            old == History(ctx)
            messages == (IF Len(old) = 0 THEN <<[role |-> "system"]>> ELSE old)
                           \o <<[role |-> "user", request |-> r]>>
        IN /\ request' = r
           /\ context_id' = ctx
           /\ ctx_id_to_messages' = WithHistory(ctx, messages)
           /\ IF ~api_key
              THEN /\ event_queue' = Enqueued(event_queue, r, "no_api_key")
                   /\ pc' = "idle"
                   /\ UNCHANGED <<iteration, recent_commands>>
              ELSE /\ iteration' = 0
                   /\ recent_commands' = <<>>
                   /\ IF 0 < MaxIterations
                      THEN pc' = "loop" /\ UNCHANGED event_queue
                      ELSE /\ pc' = "idle"
                           /\ event_queue' = AfterLoop(event_queue, r, 0)
    /\ UNCHANGED whiteframe

\* `continue`: the loop goes on while iteration < self.max_iterations, else
\* execute ends with what follows the loop
Continue(q) ==
    IF iteration + 1 < MaxIterations
    THEN pc' = "loop" /\ event_queue' = q
    ELSE pc' = "idle" /\ event_queue' = AfterLoop(q, request, iteration + 1)

\* `break` after the reply text was enqueued, then what follows the loop
Break(text) ==
    /\ pc' = "idle"
    /\ event_queue' = AfterLoop(Enqueued(event_queue, request, text),
                                request, iteration + 1)

\* one iteration of the loop, lines 371-515
Iterate ==
    /\ pc = "loop"
    /\ iteration < MaxIterations
    /\ iteration' = iteration + 1
    /\ LET messages == History(context_id)
       IN \E completion \in CompletionOutcomes :
          CASE completion = "rate_limit" ->
                 /\ Continue(event_queue)
                 /\ UNCHANGED <<ctx_id_to_messages, recent_commands>>
            [] completion = "error" ->
                 /\ Break("error")
                 /\ UNCHANGED <<ctx_id_to_messages, recent_commands>>
            [] completion = "final" ->
                 /\ ctx_id_to_messages' = WithHistory(context_id,
                        Append(messages, [role |-> "assistant",
                                          tool_calls |-> <<>>]))
                 /\ Break("final")
                 /\ UNCHANGED recent_commands
            [] completion = "tool_calls" ->
                 \E n \in 1..MaxToolCalls :
                 \E outs \in [1..n -> ToolOutcomes] :
                    LET ids == [j \in 1..n |-> [request |-> request,
                                   iteration |-> iteration + 1, n |-> j]]
                        st == RunTools(
                                 [messages |-> Append(messages,
                                      [role |-> "assistant",
                                       tool_calls |-> ids]),
                                  recent_commands |-> recent_commands,
                                  raised |-> FALSE], ids, outs, 1)
                    IN /\ ctx_id_to_messages' =
                             WithHistory(context_id, st.messages)
                       /\ recent_commands' = st.recent_commands
                       /\ IF st.raised THEN Break("error")
                          ELSE Continue(event_queue)
    /\ UNCHANGED <<request, context_id>>
    /\ UNCHANGED whiteframe

NextWhite ==
    \/ Execute
    \/ Iterate

SpecWhite == InitWhite /\ [][NextWhite]_vars

(***************************************************************************)
(* Properties                                                              *)
(***************************************************************************)
\* the positions of the call log made for loop position i with operation op
CallsAt(i, op) == {k \in 1..Len(calls) : calls[k].idx = i /\ calls[k].op = op}

\* loop position i has been through pull_image and it returned b
PullReturned(i, b) == \E k \in CallsAt(i, "pull_image") : calls[k].ret = PyBool(b)

InTask == pc \in {"step1", "step2", "step3", "step6", "return"}

\* C1: a run that passed the readiness check returns exactly one result
\* record per task of the selection, in selection order; while the loop
\* runs the records are those of the tasks before the current one, and a
\* run that raises has not entered the loop.
C1_OneResultPerTask ==
    /\ \A i \in 1..Len(all_results) :
          i <= Len(tasks) /\ all_results[i].task_name = tasks[i]
    /\ (pc = "loop" \/ InTask) => Len(all_results) = idx - 1
    /\ pc = "done" => /\ outcome.kind = "returned"
                      /\ outcome.value.tasks = all_results
                      /\ Len(all_results) = Len(tasks)
    /\ pc = "raised" => all_results = <<>> /\ idx = 1

\* a run of two tasks has returned, one task failed and one completed
C1_Witness ==
    /\ pc = "done"
    /\ Len(outcome.value.tasks) = 2
    /\ \E i, j \in 1..2 : /\ outcome.value.tasks[i].status = "failed"
                          /\ outcome.value.tasks[j].status = "completed"

\* C2: every pair (task name, task image) handed to evaluate_task is
\* consistent: the image is get_task_image_name of that task's name.
C2_ImageOfTask ==
    /\ InTask => task_results.task_image = get_task_image_name(task_results.task_name)
    /\ \A i \in 1..Len(all_results) :
          all_results[i].task_image = get_task_image_name(all_results[i].task_name)

\* C3: when the readiness check exhausts its attempts evaluate_tasks raises
\* before any task is attempted: the only call made is wait_agent_ready, no
\* result record exists, no file of the output directory is written; and the
\* loop is entered only after wait_agent_ready returned True.
C3_NotReadyIsFatal ==
    /\ (\E k \in 1..Len(calls) : calls[k].op = "wait_agent_ready"
                                 /\ calls[k].ret = PyBool(FALSE))
          => /\ pc = "raised"
             /\ outcome = Raised("RuntimeError: white agent is not ready")
             /\ Len(calls) = 1
             /\ all_results = <<>>
             /\ task_results = NoTaskResults
             /\ \A t \in TaskNames : traj_files[t] = Missing /\ result_files[t] = Missing
    /\ (pc = "loop" \/ InTask \/ pc = "done")
          => calls[1].op = "wait_agent_ready" /\ calls[1].ret = PyBool(TRUE)
    /\ pc = "wait_ready" => attempt < max_attempts

\* the readiness check of a run with a non-empty selection was exhausted
C3_Witness ==
    /\ pc = "raised"
    /\ Len(tasks) > 0
    /\ Len(calls) = 1
    /\ calls[1].ret = PyBool(FALSE)

\* C4: tasks are evaluated one after the other in selection order: a call
\* for a task is made only when exactly the results of the tasks before it
\* are recorded, the loop takes up task idx whenever one is left, whatever
\* the previous result, and a returned task is recorded before anything else.
C4_Sequential ==
    [][/\ (Len(calls') > Len(calls) /\ calls'[Len(calls')].idx > 0)
            => /\ calls'[Len(calls')].idx = Len(all_results) + 1
               /\ calls'[Len(calls')].task = tasks[Len(all_results) + 1]
       /\ (pc = "loop" /\ idx <= Len(tasks))
            => /\ pc' = "step1"
               /\ task_results'.task_name = tasks[idx]
               /\ task_results'.status = "pending"
       /\ pc = "return"
            => /\ pc' = "loop"
               /\ idx' = idx + 1
               /\ all_results' = Append(all_results, task_results)
      ]_vars

\* the second task is under way after the first one failed
C4_Witness ==
    /\ pc = "step2"
    /\ idx = 2
    /\ all_results[1].status = "failed"

\* C5: a task whose pull_image returned False is completed (not failed)
\* with the placeholder score 1 possible / 0 achieved and an explanatory
\* note; no instruction is extracted, no message sent and no scoring invoked
\* for it, no transcript is recorded for it, and it is counted as completed
\* by the aggregation.
C5_ImageUnavailable ==
    /\ \A i \in 1..Len(all_results) :
          PullReturned(i, FALSE) =>
              /\ all_results[i].status = "completed"
              /\ all_results[i].error = Absent
              /\ all_results[i].evaluation.final_score =
                     [kind |-> "dict", total |-> 1, result |-> 0]
              /\ all_results[i].evaluation.checkpoints = <<[total |-> 1, result |-> 0]>>
              /\ all_results[i].evaluation.error # Absent
              /\ all_results[i].warning # Absent
              /\ all_results[i].trajectory_path = None
              /\ CallsAt(i, "get_task_instruction") = {}
              /\ CallsAt(i, "send") = {}
              /\ CallsAt(i, "run_evaluation") = {}
    /\ \A i \in 1..Len(tasks) :
          (PullReturned(i, FALSE) /\ i = idx) => pc = "return"
    /\ pc = "done" =>
          outcome.value.summary.completed >=
              Cardinality({i \in 1..Len(all_results) : PullReturned(i, FALSE)})

\* a run has returned in which the image of a task was unavailable and
\* another task was scored from its artifact
C5_Witness ==
    /\ pc = "done"
    /\ \E i \in 1..Len(all_results) : PullReturned(i, FALSE)
    /\ \E i \in 1..Len(all_results) : all_results[i].evaluation = ArtifactScore(2, 1)
    /\ outcome.value.summary.completed = 2

\* C6: for a task with a precomputed transcript no send is ever made, and
\* whenever scoring is invoked for it (and whenever the task has reached the
\* scoring step) traj_<task>.json holds exactly the bytes of the
\* precomputed transcript and is the path handed to scoring.
C6_PrecomputedTranscript ==
    /\ \A k \in 1..Len(calls) :
          calls[k].task \in DOMAIN TRAJECTORIES_DIR =>
              /\ calls[k].op # "send"
              /\ calls[k].op = "run_evaluation" =>
                    /\ traj_files[calls[k].task] = TRAJECTORIES_DIR[calls[k].task]
                    /\ calls[k].arg.trajectory_path.file =
                           "traj_" \o calls[k].task \o ".json"
    /\ (pc = "step6" /\ task_name \in DOMAIN TRAJECTORIES_DIR)
          => traj_files[task_name] = TRAJECTORIES_DIR[task_name]
    /\ \A i \in 1..Len(all_results) :
          (tasks[i] \in DOMAIN TRAJECTORIES_DIR /\ PullReturned(i, TRUE))
              => traj_files[tasks[i]] = TRAJECTORIES_DIR[tasks[i]]

\* scoring has been invoked for a task with a precomputed transcript
C6_Witness ==
    \E k \in 1..Len(calls) :
        /\ calls[k].op = "run_evaluation"
        /\ calls[k].task \in DOMAIN TRAJECTORIES_DIR

\* the instruction obtained for loop position i: what the extraction
\* returned when one was made, else the precomputed entry
InstructionObtained(i) ==
    IF CallsAt(i, "get_task_instruction") # {}
    THEN calls[CHOOSE k \in CallsAt(i, "get_task_instruction") : TRUE].ret.s
    ELSE precomputed_instructions.d[tasks[i]]

\* loop position i is past its transcript step
PastTranscript(i) ==
    \/ i <= Len(all_results)
    \/ i = idx /\ pc \in {"step6", "return"}

\* C7: for a task whose image is available and that has no precomputed
\* transcript exactly one message is sent, carrying the instruction obtained
\* for that task; at the scoring step the transcript saved for the task is
\* at traj_<task>.json, and scoring is never invoked for a task without a
\* transcript at that path.
C7_LiveExchange ==
    /\ \A i \in 1..Len(tasks) :
          (PastTranscript(i) /\ PullReturned(i, TRUE)
                /\ tasks[i] \notin DOMAIN TRAJECTORIES_DIR)
              => /\ Cardinality(CallsAt(i, "send")) = 1
                 /\ \A k \in CallsAt(i, "send") :
                       calls[k].arg.message = InstructionObtained(i)
    /\ (pc = "step6" /\ task_name \notin DOMAIN TRAJECTORIES_DIR)
          => /\ traj_files[task_name] = SavedTrajectory(collector)
             /\ collector.task_name = task_name
             /\ collector.messages[1].content = task_instruction
             /\ Len(collector.messages) = 2
    /\ pc = "step6" => traj_files[task_name] # Missing
    /\ \A k \in 1..Len(calls) :
          calls[k].op = "run_evaluation"
              => /\ traj_files[calls[k].task] # Missing
                 /\ calls[k].arg.trajectory_path.file =
                        "traj_" \o calls[k].task \o ".json"

\* scoring has been invoked after a live exchange
C7_Witness ==
    \E k \in 1..Len(calls) :
        /\ calls[k].op = "run_evaluation"
        /\ calls[k].task \notin DOMAIN TRAJECTORIES_DIR
        /\ CallsAt(calls[k].idx, "get_task_instruction") # {}

\* run_evaluation returned None for loop position i
ScoreReturnedNone(i) ==
    \E k \in CallsAt(i, "run_evaluation") : calls[k].ret = None

\* the achieved points of the results up to n whose score was read from an
\* artifact
RECURSIVE ArtifactPoints(_)
ArtifactPoints(n) ==
    IF n = 0 THEN 0
    ELSE (IF all_results[n].status = "completed" /\ ~ScoreReturnedNone(n)
             /\ CallsAt(n, "run_evaluation") # {}
          THEN all_results[n].evaluation.final_score.result ELSE 0)
         + ArtifactPoints(n - 1)

\* C8: when scoring returns no result (non-zero exit, timeout, missing or
\* unparseable artifact) the task result is completed, its evaluation is
\* the placeholder 1 possible / 0 achieved tagged with the failure reason,
\* and the task adds nothing to the achieved sum of the aggregate.
C8_ScoringFailure ==
    /\ \A i \in 1..Len(all_results) :
          ScoreReturnedNone(i) =>
              /\ all_results[i].status = "completed"
              /\ all_results[i].error = Absent
              /\ all_results[i].evaluation.final_score =
                     [kind |-> "dict", total |-> 1, result |-> 0]
              /\ all_results[i].evaluation.checkpoints = <<[total |-> 1, result |-> 0]>>
              /\ all_results[i].evaluation.error # Absent
    /\ pc = "done" =>
          outcome.value.summary.total_score = ArtifactPoints(Len(all_results))

\* a run has returned with one task that could not be scored and one task
\* scored 1 of 2 from its artifact
C8_Witness ==
    /\ pc = "done"
    /\ \E i \in 1..Len(all_results) : ScoreReturnedNone(i)
    /\ outcome.value.summary.total_score = 1
    /\ outcome.value.summary.total_possible = 3

\* the send made for loop position i raised
SendRaised(i) == \E k \in CallsAt(i, "send") : calls[k].ret.kind = "raised"

\* C9: when the send of a task's live exchange raises, the task result is
\* failed with that error recorded and without an evaluation, scoring is
\* not invoked for it, and the run goes on: it returns one result per task
\* and every later task has been taken up.
C9_SendFailure ==
    /\ \A i \in 1..Len(all_results) :
          SendRaised(i) =>
              /\ all_results[i].status = "failed"
              /\ \E k \in CallsAt(i, "send") : all_results[i].error = calls[k].ret.error
              /\ all_results[i].evaluation = AbsentV
              /\ CallsAt(i, "run_evaluation") = {}
    /\ (InTask /\ SendRaised(idx)) => pc = "return"
    /\ pc = "done" =>
          /\ Len(all_results) = Len(tasks)
          /\ \A i \in 1..Len(tasks) : CallsAt(i, "pull_image") # {}

\* a run has returned in which the send of the first task raised and the
\* second task was then scored
C9_Witness ==
    /\ pc = "done"
    /\ SendRaised(1)
    /\ CallsAt(2, "run_evaluation") # {}

\* C10: every task result has status completed or failed, carries the task
\* id and an elapsed time, and has exactly one of evaluation and error: an
\* evaluation and no error when completed, an error and no evaluation when
\* failed.
C10_ResultShape ==
    \A i \in 1..Len(all_results) :
        LET r == all_results[i]
        IN /\ r.status \in {"completed", "failed"}
           /\ r.task_name = tasks[i]
           /\ r.elapsed_time # Absent
           /\ r.status = "completed" => (r.evaluation # AbsentV /\ r.error = Absent)
           /\ r.status = "failed" => (r.error # Absent /\ r.evaluation = AbsentV)

(***************************************************************************)
(* Aggregation                                                             *)
(***************************************************************************)
\* the positions of all_results with the given status
ResultsWith(status) ==
    {i \in 1..Len(all_results) : all_results[i].status = status}

\* the sum over the positions S of one number of the final score
RECURSIVE FinalScoreSum(_, _)
FinalScoreSum(S, field) ==
    IF S = {} THEN 0
    ELSE LET i == CHOOSE x \in S : TRUE
         IN all_results[i].evaluation.final_score[field]
                + FinalScoreSum(S \ {i}, field)

\* C11: the summary's achieved and possible sums are the sums of the final
\* scores of exactly the completed results; failed results add to the failed
\* count and to neither sum; completed count + failed count = total count.
C11_SummarySums ==
    (pc = "done" /\ outcome.kind = "returned") =>
        LET s == outcome.value.summary
        IN /\ outcome.value.tasks = all_results
           /\ s.total_score = FinalScoreSum(ResultsWith("completed"), "result")
           /\ s.total_possible = FinalScoreSum(ResultsWith("completed"), "total")
           /\ s.completed = Cardinality(ResultsWith("completed"))
           /\ s.failed = Cardinality(ResultsWith("failed"))
           /\ s.total_tasks = Len(all_results)
           /\ s.completed + s.failed = s.total_tasks

\* a run has returned with a scored completed result and a failed result
C11_Witness ==
    /\ pc = "done"
    /\ outcome.kind = "returned"
    /\ \E i \in ResultsWith("completed") :
           all_results[i].evaluation.final_score.result > 0
    /\ ResultsWith("failed") # {}

\* C12: for every aggregation produced by a run, 0 <= overall ratio <= 1
\* whenever the possible-sum is greater than 0, and the overall ratio is 0.0
\* when the possible-sum is 0, also when the scores were read from artifacts.
C12_RatioInUnitInterval ==
    (pc = "done" /\ outcome.kind = "returned") =>
        LET s == outcome.value.summary
        IN /\ s.total_possible > 0 =>
                 /\ 0 <= s.overall_score.num
                 /\ s.overall_score.num <= s.overall_score.den
           /\ s.total_possible = 0 => s.overall_score.num = 0

\* C13: every score result the orchestrator places in a task result has
\* achieved <= possible, for its final score and for every checkpoint,
\* whether it is a placeholder or was read from the scoring artifact.
C13_AchievedAtMostPossible ==
    \A i \in 1..Len(all_results) :
        LET ev == all_results[i].evaluation
        IN (ev.kind = "dict" /\ ev.final_score.kind = "dict") =>
              /\ ev.final_score.result <= ev.final_score.total
              /\ \A c \in 1..Len(ev.checkpoints) :
                     ev.checkpoints[c].result <= ev.checkpoints[c].total

(***************************************************************************)
(* pull_image                                                              *)
(***************************************************************************)
\* C20: pull_image never raises: it returns true when the local check
\* reports the image present or the pull exits with 0, and false in every
\* other case (runtime missing, a timeout, a pull exiting non-zero).
C20_PullImageTotal ==
    \A k \in 1..Len(calls) :
        calls[k].op = "pull_image" =>
            LET a == calls[k].arg
                ret == calls[k].ret
            IN /\ ret.kind = "bool"
               /\ a.pulled = ~a.local
               /\ ret.v = (a.local \/ (a.pulled /\ a.pull_rc = PyInt(0)))
               /\ ret.v => a.image \in local_images
               /\ \A j \in 1..Len(all_results) :
                      all_results[j].warning # "Docker error - used mock evaluation"

\* one pull timed out or could not start and returned false, another pull
\* exited with 0 and returned true
C20_Witness ==
    /\ \E k \in 1..Len(calls) :
           /\ calls[k].op = "pull_image"
           /\ calls[k].arg.pull_rc = PyInt(-1)
           /\ calls[k].ret = PyBool(FALSE)
    /\ \E k \in 1..Len(calls) :
           /\ calls[k].op = "pull_image"
           /\ calls[k].arg.pull_rc = PyInt(0)
           /\ calls[k].ret = PyBool(TRUE)

(***************************************************************************)
(* Task selection                                                          *)
(***************************************************************************)
\* the request carries a non-empty explicit list of task names
HasNames(sel) == sel.task_names.kind = "list" /\ Len(sel.task_names.items) > 0

\* the request names a subset of the catalog
KnownSubset(sel) ==
    sel.subset.kind = "str" /\ sel.subset.s \in DOMAIN TASK_SUBSETS

\* the list the claims expect the request to resolve to
Expected(sel) ==
    IF HasNames(sel) THEN sel.task_names.items
    ELSE IF KnownSubset(sel) THEN TASK_SUBSETS[sel.subset.s]
    ELSE TASK_SUBSETS.intermediate

\* the selector that made the k-th select_tasks call
SelectorOf(k) == selectors[selections[k].sel]

NoDuplicates(l) == \A i, j \in 1..Len(l) : l[i] = l[j] => i = j

\* C14: selection resolves by first match: a non-empty explicit name list
\* is the selection whatever subset is given and whatever the names are
\* (never an error for unknown names); otherwise the list of the named
\* subset when it is a known subset; otherwise the default subset.  A
\* maximum count, when set, samples from that list.
C14_FirstMatch ==
    \A k \in 1..Len(selections) :
        LET sel == SelectorOf(k)
            ret == selections[k].ret
        IN /\ ret.kind = "raised" =>
                 (sel.max_tasks.kind = "int" /\ sel.max_tasks.v < 0)
           /\ ret.kind = "list" =>
                 /\ Range(ret.items) \subseteq Range(Expected(sel))
                 /\ sel.max_tasks = None => ret.items = Expected(sel)

\* a selector with unknown explicit names and a known subset returned the
\* names
C14_Witness ==
    \E k \in 1..Len(selections) :
        /\ HasNames(SelectorOf(k))
        /\ KnownSubset(SelectorOf(k))
        /\ "no-such-task" \in Range(SelectorOf(k).task_names.items)
        /\ selections[k].ret = SelectorOf(k).task_names

\* C15: a request naming a subset that does not exist does not error: the
\* selection is the task list of the default (intermediate) subset.
C15_UnknownSubsetIsDefault ==
    \A k \in 1..Len(selections) :
        LET sel == SelectorOf(k)
            ret == selections[k].ret
        IN (/\ sel.subset.kind = "str"
            /\ sel.subset.s \notin DOMAIN TASK_SUBSETS
            /\ ~HasNames(sel)
            /\ ~(sel.max_tasks.kind = "int" /\ sel.max_tasks.v < 0))
           => /\ ret.kind = "list"
              /\ Range(ret.items) \subseteq Range(TASK_SUBSETS.intermediate)
              /\ sel.max_tasks = None => ret.items = TASK_SUBSETS.intermediate

\* a selector naming a subset that does not exist, with no names and no
\* maximum, returned a selection
C15_Witness ==
    \E k \in 1..Len(selections) :
        /\ SelectorOf(k).subset = PyStr("nonexistent-subset")
        /\ ~HasNames(SelectorOf(k))
        /\ SelectorOf(k).max_tasks = None
        /\ selections[k].ret.kind = "list"

\* C16 as claimed: no task id occurs twice in any selection select_tasks
\* returns.
C16_NoDuplicates ==
    \A k \in 1..Len(selections) :
        selections[k].ret.kind = "list" => NoDuplicates(selections[k].ret.items)

\* C16: no task id occurs twice in a selection resolved from the catalog
\* (a named subset or the default subset), sampled or not.
C16_CatalogNoDuplicates ==
    \A k \in 1..Len(selections) :
        (selections[k].ret.kind = "list" /\ ~HasNames(SelectorOf(k)))
            => NoDuplicates(selections[k].ret.items)

\* a sample of two tasks of a catalog subset of three was returned
C16_Witness ==
    \E k \in 1..Len(selections) :
        /\ ~HasNames(SelectorOf(k))
        /\ SelectorOf(k).max_tasks = PyInt(2)
        /\ selections[k].ret.kind = "list"
        /\ Len(selections[k].ret.items) = 2
        /\ Len(Expected(SelectorOf(k))) > 2

\* C17: whenever a maximum count m >= 0 is set the selection holds at most
\* m tasks: m distinct elements of the resolved list if m is smaller than
\* its length, otherwise the resolved list unchanged.
C17_AtMostMax ==
    \A k \in 1..Len(selections) :
        LET sel == SelectorOf(k)
            ret == selections[k].ret
        IN (sel.max_tasks.kind = "int" /\ sel.max_tasks.v >= 0) =>
              /\ ret.kind = "list"
              /\ Len(ret.items) <= sel.max_tasks.v
              /\ IF sel.max_tasks.v < Len(Expected(sel))
                 THEN /\ Len(ret.items) = sel.max_tasks.v
                      /\ Range(ret.items) \subseteq Range(Expected(sel))
                 ELSE ret.items = Expected(sel)

\* C18: select_tasks has no side effects: every call on the same selector
\* returns the same list, so the list announced and the list evaluated are
\* the same.
C18_RepeatableSelect ==
    \A j, k \in 1..Len(selections) :
        selections[j].sel = selections[k].sel
            => selections[j].ret = selections[k].ret

\* the first select_tasks call of the i-th selector
FirstCallOf(i) ==
    {k \in 1..Len(selections) :
        /\ selections[k].sel = i
        /\ \A j \in 1..(k - 1) : selections[j].sel # i}

\* C19: two selectors built from the same request with a seed return the
\* same selection, whatever selectors are constructed or asked in between.
C19_SeedReproducible ==
    \A a, b \in 1..Len(selectors) :
        (a # b /\ selectors[a] = selectors[b] /\ selectors[a].random_seed # None)
            => \A j \in FirstCallOf(a), k \in FirstCallOf(b) :
                   selections[j].ret = selections[k].ret

(***************************************************************************)
(* DockerManager                                                           *)
(***************************************************************************)
\* the positions of the call log that hold a call of op
CallsOf(op) == {k \in 1..Len(calls) : calls[k].op = op}

\* calls k and k + 1 are pull_image calls for the same image
PullTwice(k) ==
    /\ k \in CallsOf("pull_image")
    /\ k + 1 \in CallsOf("pull_image")
    /\ calls[k].arg.image = calls[k + 1].arg.image

InstructionFallback == "Complete the task in /instruction/task.md"

\* C22: get_task_instruction never propagates an error: it returns the file
\* content when the read exits with 0 and the generic fallback instruction
\* in every failure case (launch failure, non-zero exit, timeout).
C22_InstructionOrFallback ==
    \A k \in CallsOf("get_task_instruction") :
        LET a == calls[k].arg
            ret == calls[k].ret
        IN /\ ret.kind = "str"
           /\ a.ending = "exit0" => ret.s = "task.md of " \o a.image.name
           /\ a.ending # "exit0" => ret.s = InstructionFallback

\* one extraction timed out and another one exited with 0
C22_Witness ==
    /\ \E k \in CallsOf("get_task_instruction") :
          /\ calls[k].arg.ending = "timeout"
          /\ calls[k].ret = PyStr(InstructionFallback)
    /\ \E k \in CallsOf("get_task_instruction") :
          /\ calls[k].arg.ending = "exit0"
          /\ calls[k].ret # PyStr(InstructionFallback)

\* the scoring call could not score: the container did not exit with 0, the
\* artifact is missing, or it is not JSON
CouldNotScore(a) ==
    \/ a.returncode # 0
    \/ a.file = Missing
    \/ ~a.file.parses

\* C23 as claimed: run_evaluation never raises and returns null exactly
\* when the instance exits non-zero, the artifact is missing or it cannot
\* be parsed; otherwise it returns the parsed artifact.
C23_NullExactly ==
    \A k \in CallsOf("run_evaluation") :
        LET a == calls[k].arg
            ret == calls[k].ret
        IN /\ ret.kind # "raised"
           /\ (ret = None) <=> CouldNotScore(a)
           /\ ~CouldNotScore(a) => ret = a.file.value

\* C23: run_evaluation never raises; it returns null when the instance
\* exits non-zero, the artifact is missing or it cannot be parsed, and
\* otherwise the parsed artifact, whatever JSON value that is (null for an
\* artifact that holds the JSON literal null).
C23_NullOrArtifact ==
    \A k \in CallsOf("run_evaluation") :
        LET a == calls[k].arg
            ret == calls[k].ret
        IN /\ ret.kind # "raised"
           /\ CouldNotScore(a) => ret = None
           /\ ~CouldNotScore(a) => ret = a.file.value

\* one scoring call exited non-zero beside a parsable artifact and returned
\* null, another returned the score of its artifact
C23_Witness ==
    /\ \E k \in CallsOf("run_evaluation") :
          /\ calls[k].arg.returncode # 0
          /\ calls[k].arg.file # Missing
          /\ calls[k].arg.file.parses
          /\ calls[k].arg.file.value # None
          /\ calls[k].ret = None
    /\ \E k \in CallsOf("run_evaluation") :
          /\ ~CouldNotScore(calls[k].arg)
          /\ calls[k].ret.kind = "dict"

\* C30: at every moment at most one container started by the run is
\* running: the container of one operation is no longer running when the
\* next one is started, also when the earlier operation timed out.
C30_OneContainer == Cardinality(containers) <= 1

(***************************************************************************)
(* wait_agent_ready                                                        *)
(***************************************************************************)
\* every wait_agent_ready call that returned made at most max_attempts
\* polls, returned true on a poll answered with 200 and false after
\* max_attempts polls of which the last one failed, and never raised
ReadyReturnsRight ==
    /\ attempt < max_attempts
    /\ \A k \in CallsOf("wait_agent_ready") :
          LET a == calls[k].arg
              ret == calls[k].ret
          IN /\ ret.kind = "bool"
             /\ a.polls >= 1 /\ a.polls <= max_attempts
             /\ ret.v <=> a.last = "200"
             /\ ~ret.v => a.polls = max_attempts

\* C24: wait_agent_ready always terminates without raising after at most
\* max_attempts polls: it returns true at the first poll answered with 200
\* and makes no further poll, and returns false once max_attempts polls
\* have failed (request error or non-200 answer).
C24_WaitReadyTerminates ==
    /\ []ReadyReturnsRight
    /\ [][attempt' # attempt =>
            \/ attempt' = attempt + 1 /\ calls' = calls
            \/ attempt' = 0 /\ Len(calls') = Len(calls) + 1]_vars
    /\ <>(Len(calls) = MaxReadyCalls)

\* one call returned true at a poll after the first, another returned
\* false after a last poll answered with a status other than 200
C24_Witness ==
    /\ \E k \in CallsOf("wait_agent_ready") :
          /\ calls[k].ret = PyBool(TRUE)
          /\ calls[k].arg.polls > 1
    /\ \E k \in CallsOf("wait_agent_ready") :
          /\ calls[k].ret = PyBool(FALSE)
          /\ calls[k].arg.last = "not200"

(***************************************************************************)
(* The live exchange and the output directory                              *)
(***************************************************************************)
\* C25: transport errors of send are not retried: at most one request is
\* sent per task, an error of the request propagates to evaluate_task, and
\* a task whose live exchange failed has caused exactly one request.
C25_NoRetry ==
    /\ \A i \in 1..Len(tasks) : Cardinality(CallsAt(i, "send")) <= 1
    /\ \A i \in 1..Len(tasks) :
          SendRaised(i) =>
              /\ Cardinality(CallsAt(i, "send")) = 1
              /\ i = idx => (pc = "return" /\ task_results.status = "failed"
                              /\ task_results.error \in SendErrors)
              /\ i <= Len(all_results) => all_results[i].error \in SendErrors

\* the send of a recorded task timed out
C25_Witness ==
    \E i \in 1..Len(all_results) :
        /\ \E k \in CallsAt(i, "send") : calls[k].ret = Raised("ReadTimeout")
        /\ all_results[i].error = "ReadTimeout"

\* the send of loop position i returned a response
SendAnswered(i) == \E k \in CallsAt(i, "send") : calls[k].ret.kind = "response"

\* C27: after a live exchange the transcript persisted for the task holds
\* the instruction and then the reply as entries of its action sequence.
C27_ExchangeInActions ==
    (pc = "step6" /\ SendAnswered(idx)) =>
        LET f == traj_files[task_name]
            k == CHOOSE j \in CallsAt(idx, "send") : TRUE
        IN /\ f # Missing
           /\ Len(f.actions) = 2
           /\ f.action_count = 2
           /\ f.actions[1].content = task_instruction
           /\ f.actions[2].content = extract_message_text(calls[k].ret.r)

\* C28: within one run every file of the output directory is written at
\* most once and never modified after it has been written.
C28_WrittenOnce ==
    [][\A t \in TaskNames :
          /\ traj_files[t] # Missing => traj_files'[t] = traj_files[t]
          /\ result_files[t] # Missing => result_files'[t] = result_files[t]]_vars

\* C29: evaluate_tasks never raises except when the subject never becomes
\* ready; otherwise it returns a summary with definite completed and failed
\* counts and a numeric overall ratio.
C29_OnlyReadinessRaises ==
    /\ pc = "raised" =>
          /\ outcome = Raised("RuntimeError: white agent is not ready")
          /\ \E k \in 1..Len(calls) : calls[k].op = "wait_agent_ready"
                                      /\ calls[k].ret = PyBool(FALSE)
    /\ pc = "done" =>
          /\ outcome.kind = "returned"
          /\ outcome.value.summary.completed \in 0..Len(tasks)
          /\ outcome.value.summary.failed \in 0..Len(tasks)
          /\ outcome.value.summary.overall_score.num \in Int
          /\ outcome.value.summary.overall_score.den > 0

(***************************************************************************)
(* _extract_message_text                                                   *)
(***************************************************************************)
\* the texts of the text-bearing parts, in order
TextsOf(parts) ==
    LET texty == SelectSeq(parts, LAMBDA q : q.has_text)
    IN [i \in 1..Len(texty) |-> texty[i].text]

\* the texts put one after the other, a space between two of them
RECURSIVE SpaceJoined(_)
SpaceJoined(texts) ==
    IF Len(texts) = 1 THEN texts[1]
    ELSE texts[1] \o " " \o SpaceJoined(Tail(texts))

\* C26: the reply text is the texts of all text-bearing parts of the
\* response put together in order; when the response has no text-bearing
\* part (no parts, or none with text) it is the stringified response; the
\* extraction never fails.
C26_TextOrStringified ==
    \A k \in CallsOf("_extract_message_text") :
        LET response == calls[k].arg
            ret == calls[k].ret
        IN /\ ret.kind = "str"
           /\ IF TextsOf(response.parts) # <<>>
              THEN ret.s = SpaceJoined(TextsOf(response.parts))
              ELSE ret.s = "str(response)"

\* C31: get_task_instruction tears its container down unconditionally: when
\* it has returned, on success, non-zero exit and timeout alike, the
\* container it started is not running and its name is free for the next
\* extraction.
C31_InstructionTornDown ==
    /\ (calls # <<>> /\ calls[Len(calls)].op = "get_task_instruction")
          => ~\E c \in containers : c.name = InstructionContainer
    /\ \A k \in CallsOf("get_task_instruction") :
          calls[k].arg.ending # "conflict"

(***************************************************************************)
(* The readiness check and the instruction step of a run                   *)
(***************************************************************************)
\* the run is past the readiness check of lines 346-349
PastReadiness ==
    \/ pc \in {"loop", "done"}
    \/ InTask
    \/ pc = "raised" /\ outcome = Raised("RuntimeError: white agent is not ready")

\* C32: the agent's readiness is checked exactly once per run, before the
\* first task's image check, and not again between or inside tasks: the
\* only wait_agent_ready call of a run is the first call of the run, and
\* a run past the check has made it.
C32_ReadinessOnce ==
    /\ CallsOf("wait_agent_ready") \subseteq {1}
    /\ PastReadiness => CallsOf("wait_agent_ready") = {1}
    /\ \A k \in CallsOf("pull_image") : k > 1

\* a run of two tasks has returned: both image checks are behind it
C32_Witness ==
    /\ pc = "done"
    /\ Len(all_results) = 2
    /\ Cardinality(CallsOf("pull_image")) = 2
    /\ CallsOf("wait_agent_ready") = {1}

\* loop position i is past its instruction step
PastInstruction(i) ==
    /\ PullReturned(i, TRUE)
    /\ \/ i <= Len(all_results)
       \/ i = idx /\ pc \in {"step3", "step6", "return"}

C33_WitnessCached ==
    /\ pc = "step3"
    /\ task_name \in DOMAIN precomputed_instructions.d
    /\ task_instruction = TASK_INSTRUCTIONS_FILE[task_name]

\* C34: every run terminates: with every external call answering or timing
\* out, evaluate_tasks eventually either raises the readiness error or
\* returns the summary after the last selected task.
C34_RaisesReadinessOrReturns ==
    <>(\/ pc = "raised"
          /\ outcome = Raised("RuntimeError: white agent is not ready")
       \/ pc = "done" /\ Len(all_results) = Len(tasks))

\* the run ends, one way or another
RunEnds == <>(pc \in {"raised", "done"})

\* C38: the context id a task's live exchange is sent under is the run-level
\* context id when the caller supplied one, so that every task of the run
\* sends under that same id, and otherwise an id generated for that one
\* task, which no other task of the run sends under.
C38_ContextIdOfSend ==
    \A k \in CallsOf("send") :
        IF context_id # None
        THEN calls[k].arg.context_id = context_id
        ELSE /\ calls[k].arg.context_id.kind = "uuid4"
             /\ \A j \in CallsOf("send") :
                   j # k => calls[j].arg.context_id # calls[k].arg.context_id

\* two tasks of one run have sent under the caller's context id
C38_Witness ==
    /\ context_id = PyStr("ctx-run")
    /\ \E j, k \in CallsOf("send") :
          /\ j < k
          /\ calls[j].arg.context_id = calls[k].arg.context_id

\* two tasks of one run have sent without a context id from the caller
C38_WitnessFresh ==
    /\ context_id = None
    /\ Cardinality(CallsOf("send")) = 2

(***************************************************************************)
(* cleanup_container                                                       *)
(***************************************************************************)
\* the step is a cleanup_container call
IsCleanup ==
    /\ Len(calls') = Len(calls) + 1
    /\ calls'[Len(calls')].op = "cleanup_container"

\* the cleanup call this step makes
ThisCleanup == calls'[Len(calls')]

\* a container of name is running
Running(name) == \E c \in containers : c.name = name

\* the step comes right after a cleanup_container call for the same name
\* that returned True
CleanupAgain ==
    /\ calls # <<>>
    /\ calls[Len(calls)].op = "cleanup_container"
    /\ calls[Len(calls)].arg.name = ThisCleanup.arg.name
    /\ calls[Len(calls)].ret = PyBool(TRUE)

\* C37: cleanup_container never raises, touches no container of another
\* name and nothing but containers, and a call made again after a cleanup
\* of the same name, or made when no container of the name exists, leaves
\* no container of that name and changes nothing at all.
C37_CleanupIdempotent ==
    [][IsCleanup =>
          /\ ThisCleanup.ret \in {PyBool(TRUE), PyBool(FALSE)}
          /\ {c \in containers' : c.name # ThisCleanup.arg.name}
                = {c \in containers : c.name # ThisCleanup.arg.name}
          /\ containers' \subseteq containers
          /\ local_images' = local_images
          /\ result_files' = result_files
          /\ (CleanupAgain \/ ~Running(ThisCleanup.arg.name)) =>
                /\ containers' = containers
                /\ ~\E c \in containers' : c.name = ThisCleanup.arg.name]_vars

\* a container was removed by name and the same cleanup was made again
\* with nothing of that name left
C37_Witness ==
    \E k \in CallsOf("cleanup_container") :
        /\ calls[k].arg.present
        /\ calls[k].ret = PyBool(TRUE)
        /\ k + 1 \in CallsOf("cleanup_container")
        /\ calls[k + 1].arg.name = calls[k].arg.name
        /\ ~calls[k + 1].arg.present

\* one container was removed by name while another kept running
C37_WitnessOther ==
    /\ \E k \in CallsOf("cleanup_container") :
          calls[k].arg.present /\ calls[k].ret = PyBool(TRUE)
    /\ calls # <<>>
    /\ calls[Len(calls)].op = "cleanup_container"
    /\ containers # {}

(***************************************************************************)
(* TrajectoryCollector                                                     *)
(***************************************************************************)
\* the operations that record an action
AddOps ==
    {"add_action", "add_bash_command", "add_file_read", "add_file_write",
     "add_browser_navigation", "add_message"}

\* the operation of the step, when the step is a call on the collector
StepOp == calls'[Len(calls')].op

\* C35: the action sequence is append-only and in order of occurrence:
\* every operation that records an action appends exactly one record at the
\* end and leaves the earlier records as they were, every other operation
\* (save, get_trajectory, loading the file, recording an A2A message)
\* leaves the sequence as it is, and the action_count of a saved file is
\* the length of its action sequence.
C35_AppendOnly ==
    [][/\ Len(calls') = Len(calls) + 1
       /\ IF StepOp \in AddOps
          THEN /\ Len(collector'.actions) = Len(collector.actions) + 1
               /\ SubSeq(collector'.actions, 1, Len(collector.actions))
                     = collector.actions
          ELSE collector'.actions = collector.actions
       /\ traj_files'[CollectorTask] # Missing =>
             LET members == traj_files'[CollectorTask].members
             IN /\ members.action_count.json = "number"
                /\ ~members.action_count.fraction
                /\ members.action_count.v = Len(members.actions.items)]_vars

\* three actions were recorded and the transcript saved after them
C35_Witness ==
    /\ Len(collector.actions) = 3
    /\ collector.actions[1] # collector.actions[2]
    /\ traj_files[CollectorTask] # Missing
    /\ Len(traj_files[CollectorTask].members.actions.items) = 3

\* the save call a load call read the file of: the last one before it
SaveBefore(k) ==
    CHOOSE j \in CallsOf("save") :
        j < k /\ \A i \in CallsOf("save") : i < k => i <= j

\* the action sequence in memory when the file load call k read was saved
SavedActions(k) == calls[SaveBefore(k)].arg.d.actions.items

\* the action sequence load call k got
LoadedActions(k) == calls[k].ret.d.actions.items

\* C36 as claimed: a transcript saved and loaded again has the same number
\* of actions and the same kind, payload and timestamp at every position.
C36_RoundTrip ==
    \A k \in CallsOf("load") : LoadedActions(k) = SavedActions(k)

\* a value json.dump writes and json.load reads back as it was: no tuple
\* in it
RECURSIVE JsonValue(_)
JsonValue(v) ==
    CASE v.kind = "tuple" -> FALSE
      [] v.kind = "list" -> \A i \in 1..Len(v.items) : JsonValue(v.items[i])
      [] v.kind = "dict" -> \A m \in DOMAIN v.d : JsonValue(v.d[m])
      [] OTHER -> TRUE

\* C36 amended: the loaded transcript has the same number of actions and
\* the same kind and timestamp at every position, and the same payload at
\* every position whose payload holds no tuple.
C36_RoundTripOfJsonValues ==
    \A k \in CallsOf("load") :
        /\ Len(LoadedActions(k)) = Len(SavedActions(k))
        /\ \A i \in 1..Len(SavedActions(k)) :
              /\ LoadedActions(k)[i].d.type = SavedActions(k)[i].d.type
              /\ LoadedActions(k)[i].d.timestamp
                    = SavedActions(k)[i].d.timestamp
              /\ JsonValue(SavedActions(k)[i].d.data) =>
                    LoadedActions(k)[i] = SavedActions(k)[i]

\* a transcript of two actions, one stamped by the clock and one by the
\* caller, was saved and loaded
C36_Witness ==
    \E k \in CallsOf("load") :
        /\ Len(SavedActions(k)) = 2
        /\ SavedActions(k)[1].d.timestamp.kind = "float"
        /\ SavedActions(k)[2].d.timestamp.kind = "int"
        /\ JsonValue(SavedActions(k)[2].d.data)
        /\ LoadedActions(k) = SavedActions(k)

(***************************************************************************)
(* The white agent                                                         *)
(***************************************************************************)
\* the events enqueued for request r
EventsOf(r) == {k \in 1..Len(event_queue) : event_queue[k].request = r}

\* C39: the white agent enqueues exactly one reply per execute request,
\* however its loop ends: every request that has been served has exactly
\* one event in the queue.
C39_OneReply ==
    \A r \in 1..request :
        /\ Cardinality(EventsOf(r)) <= 1
        /\ (r < request \/ pc = "idle") => Cardinality(EventsOf(r)) = 1

\* the tool-result messages for tool call id between the assistant message
\* at position i of msgs and the next assistant message
ResultsFor(msgs, i, id) ==
    {k \in (i + 1)..Len(msgs) :
        /\ msgs[k].role = "tool"
        /\ msgs[k].tool_call_id = id
        /\ \A m \in (i + 1)..k : msgs[m].role # "assistant"}

\* every tool call of every assistant message of msgs has exactly one
\* tool-result message
Answered(msgs) ==
    \A i \in 1..Len(msgs) :
        msgs[i].role = "assistant" =>
            \A j \in 1..Len(msgs[i].tool_calls) :
                Cardinality(ResultsFor(msgs, i, msgs[i].tool_calls[j])) = 1

\* C40: whenever the model is about to be called on a context, every tool
\* call of every assistant message of the context's history has exactly
\* one tool-result message, also in a later request on the context.
C40_ToolCallsAnswered ==
    pc = "loop" => Answered(History(context_id))

====
